---- MODULE Spec2Model ----
(***************************************************************************)
(* A model of the MoNKey! m,n,k,p,q-game server (blixt/monkey).            *)
(*                                                                         *)
(* The state is the datastore: the Game entities, the Player entities and  *)
(* the RuleSet entity the games refer to, plus the JSON response of the    *)
(* last service request.  Every action is one request handler of           *)
(* main.GameService, executed from its first line to its last; requests    *)
(* that overlap are two actions, the read of the game and the rest of the  *)
(* handler, with the instance they hold kept in pending.  The methods      *)
(* of monkey.Game, monkey.RuleSet and util are operators on a store record *)
(* [Game, Player, RuleSet] that return the store they leave behind and the *)
(* exception they raise.                                                   *)
(*                                                                         *)
(* Python lists and strings are sequences; the Python index i is the TLA+  *)
(* index i + 1.  A string is a sequence of one-character strings.          *)
(***************************************************************************)
EXTENDS Integers, Sequences, FiniteSets, TLC

\* Bounds of the model.
MaxGames == 1   \* game ids the datastore hands out in one behaviour
MaxCount == 2   \* cap on wins / losses / draws / num_games
MaxRequests == 2   \* requests that are in progress at the same time
MaxPlayed == 2     \* moves played before requests overlap

\* Keys of the Player entities that send requests.
Humans == {"A", "B"}

\* One RuleSet entity as create_rule_set stores it (exact keeps its default).
rs(m, n, k, p, q, num_players) ==
    [m |-> m, n |-> n, k |-> k, p |-> p, q |-> q,
     num_players |-> num_players, num_games |-> 0, exact |-> FALSE]

\* The rule sets a behaviour may start with.
RuleSets ==
    { rs(2, 2, 2, 1, 1, 2),    \* square, the third stone always wins
      rs(2, 2, 3, 2, 1, 2),    \* only draws, two stones per later turn
      rs(2, 2, 3, 1, 2, 2),    \* only draws, two stones in the first turn
      rs(2, 2, 2, 1, 1, 3),    \* three seats, the last cell wins
      rs(2, 3, 2, 1, 1, 2),    \* m < n
      rs(3, 2, 2, 1, 1, 2),    \* m > n
      rs(1, 2, 1, 1, 1, 2),    \* k = 1 on a board that is not square
      rs(1, 1, 1, 1, 1, 2),    \* a single cell that wins
      rs(1, 1, 2, 1, 1, 2) }   \* a single cell that draws

VARIABLES Game, Player, RuleSet, next_id, response, pending
vars == <<Game, Player, RuleSet, next_id, response, pending>>

\* The requests in progress that have read their game and not yet gone on.
Requests == 1 .. MaxRequests
NoRequest == [action |-> ""]
Answered == [action |-> "answered"]
Idle == pending = [q \in Requests |-> NoRequest]

GameIds == 1 .. MaxGames

\* What Game.get_by_id returns for an id with no stored entity.
None == [state |-> "None"]

\* ---------------------------------------------------------------------
\* Exceptions and results of a method call.
NoError == [type |-> "", message |-> ""]
Ok(st) == [st |-> st, error |-> NoError]
Raise(st, type, message) ==
    [st |-> st, error |-> [type |-> type, message |-> message]]

\* ---------------------------------------------------------------------
\* Python helpers.
Range(s) == {s[i] : i \in 1 .. Len(s)}

\* list.index(v), zero based
index(s, v) == (CHOOSE i \in 1 .. Len(s) :
                   s[i] = v /\ \A j \in 1 .. (i - 1) : s[j] # v) - 1

\* list.remove(v): drops the first occurrence
remove(s, v) ==
    LET i == index(s, v) + 1
    IN  [j \in 1 .. (Len(s) - 1) |-> IF j < i THEN s[j] ELSE s[j + 1]]

Digits == <<"0", "1", "2", "3", "4", "5", "6", "7", "8", "9">>
\* str(i) of a seat index or 0
str(i) == Digits[i + 1]
\* int(c) of a one-character string
int(c) == (CHOOSE i \in 1 .. 10 : Digits[i] = c) - 1

\* board[x][y] exists (otherwise Python raises IndexError); x, y >= 0
HasIndex(board, x, y) ==
    /\ x + 1 <= Len(board)
    /\ y + 1 <= Len(board[x + 1])

\* A shuffle that draws every seat independently, so that a player may be
\* drawn twice and another not at all.
shuffle_with_repeats(s) ==
    {[i \in 1 .. Len(s) |-> s[f[i]]] : f \in [1 .. Len(s) -> 1 .. Len(s)]}

\* random.shuffle(s): every rearrangement of s
shuffle(s) ==
    LET n == Len(s)
        Bij == {f \in [1 .. n -> 1 .. n] : \A i, j \in 1 .. n : f[i] = f[j] => i = j}
    IN  {[i \in 1 .. n |-> s[f[i]]] : f \in Bij}

\* A contains that looks into the first list only.
contains_first(sequence, value) ==
    \E j \in 1 .. Len(sequence[1]) : sequence[1][j] = value

\* util.contains(sequence, value) on a list of lists
contains(sequence, value) ==
    \E i \in 1 .. Len(sequence) :
        \E j \in 1 .. Len(sequence[i]) : sequence[i][j] = value

\* ---------------------------------------------------------------------
\* RuleSet methods.

\* A whose_turn that gives the first seat no block after its first turn.
whose_turn_skips_first(rule_set, turn) ==
    IF turn < rule_set.q
    THEN 1
    ELSE (((turn - rule_set.q) \div rule_set.p) % (rule_set.num_players - 1)) + 2

whose_turn(rule_set, turn) ==
    IF turn < rule_set.q
    THEN 1
    ELSE ((((turn - rule_set.q) \div rule_set.p) + 1) % rule_set.num_players) + 1

\* A turns_left that counts the stones placed in the block, not those left.
turns_left_placed(rule_set, turn) ==
    IF turn < rule_set.q
    THEN rule_set.q - turn
    ELSE ((turn - rule_set.q) % rule_set.p) + 1

turns_left(rule_set, turn) ==
    IF turn < rule_set.q
    THEN rule_set.q - turn
    ELSE rule_set.p - ((turn - rule_set.q) % rule_set.p)

\* A counter update that keeps the count over a cell of another seat.
count_no_reset(c, cell, player) == IF cell = player THEN c + 1 ELSE c

\* One counter update of is_win: c += 1 if cell == player else -c
count(c, cell, player) == IF cell = player THEN c + 1 ELSE 0

\* The loop of is_win from offset i on, with the counters of the four axes.
\* Returns "True", "False" or "IndexError".
RECURSIVE is_win_loop(_, _, _, _, _, _, _)
is_win_loop(rule_set, board, player, x, y, i, c) ==
    IF i >= rule_set.k THEN "False"
    ELSE
    LET tx  == x + i
        txi == x - i
        ty  == y + i
        m   == rule_set.m
        n   == rule_set.n
        h  == tx >= 0 /\ tx < m
        v  == ty >= 0 /\ ty < n
        d  == tx >= 0 /\ ty >= 0 /\ tx < m /\ ty < n
        a  == txi >= 0 /\ ty >= 0 /\ txi < m /\ ty < n
    IN  IF \/ h /\ ~HasIndex(board, tx, y)
           \/ v /\ ~HasIndex(board, x, ty)
           \/ d /\ ~HasIndex(board, tx, ty)
           \/ a /\ ~HasIndex(board, txi, ty)
        THEN "IndexError"
        ELSE
        LET ca == IF h THEN count(c[1], board[tx + 1][y + 1], player) ELSE c[1]
            cb == IF v THEN count(c[2], board[x + 1][ty + 1], player) ELSE c[2]
            cc == IF d THEN count(c[3], board[tx + 1][ty + 1], player) ELSE c[3]
            cd == IF a THEN count(c[4], board[txi + 1][ty + 1], player) ELSE c[4]
        IN  IF ~rule_set.exact /\ rule_set.k \in {ca, cb, cc, cd}
            THEN "True"
            ELSE is_win_loop(rule_set, board, player, x, y, i + 1,
                             <<ca, cb, cc, cd>>)

\* An is_win that looks from the stone onwards only.
is_win_forward(rule_set, board, player, x, y) ==
    IF rule_set.exact
    THEN "NotImplementedError"
    ELSE is_win_loop(rule_set, board, player, x, y, 0, <<0, 0, 0, 0>>)

is_win(rule_set, board, player, x, y) ==
    IF rule_set.exact
    THEN "NotImplementedError"
    ELSE is_win_loop(rule_set, board, player, x, y, 1 - rule_set.k,
                     <<0, 0, 0, 0>>)

\* ---------------------------------------------------------------------
\* The board codec of Game.

\* The data of a game that has not been saved yet (Game.put, first save).
new_data(rule_set) ==
    [i \in 1 .. rule_set.n |-> [j \in 1 .. rule_set.m |-> "0"]]

unpack_board(data) ==
    [r \in 1 .. Len(data) |-> [c \in 1 .. Len(data[r]) |-> int(data[r][c])]]

\* pack_board reads _board[x][y] for every x < m, y < n
pack_board_raises(rule_set, board) ==
    \E x \in 0 .. (rule_set.m - 1) :
        \E y \in 0 .. (rule_set.n - 1) : ~HasIndex(board, x, y)

\* A pack_board that writes one string per y.
pack_board_by_column(rule_set, board) ==
    [y \in 1 .. rule_set.n |-> [x \in 1 .. rule_set.m |-> str(board[x][y])]]

pack_board(rule_set, board) ==
    [x \in 1 .. rule_set.m |-> [y \in 1 .. rule_set.n |-> str(board[x][y])]]

\* ---------------------------------------------------------------------
\* Game methods.  self is the instance read from the store; a method changes
\* the store only where the code calls put() or delete().

\* A Game(rule_set = rule_set) after its first put(): the property defaults
\* (current_player is None, written 0) and the initial data.
new_game(rule_set) ==
    [state |-> "waiting", players |-> <<>>, current_player |-> 0,
     turn |-> -1, data |-> new_data(rule_set)]

\* Game.put of a saved entity.  cached says whether the instance holds an
\* unpacked _board, which pack_board then writes back into data.
put(st, id, self, cached, board) ==
    IF cached /\ pack_board_raises(st.RuleSet, board)
    THEN Raise(st, "IndexError", "list index out of range")
    ELSE Ok([st EXCEPT !.Game[id] =
                 IF cached
                 THEN [self EXCEPT !.data = pack_board(st.RuleSet, board)]
                 ELSE self])

\* Game.delete
delete(st, id) == Ok([st EXCEPT !.Game[id] = None])

\* The fields add_player sets when the last seat is taken; order is the
\* outcome of random.shuffle(self.players).
start(self, order) ==
    [self EXCEPT !.players = order, !.state = "playing",
                 !.turn = 0, !.current_player = 1]

\* A start test that waits for one player more than there are seats.
is_full_late(players, rule_set) == Len(players) > rule_set.num_players

\* len(self.players) == self.rule_set.num_players
is_full(players, rule_set) == Len(players) = rule_set.num_players

add_player(st, id, player, order) ==
    LET self == st.Game[id]
    IN  IF player \in Range(self.players)
        THEN Raise(st, "JoinError", "Player is already in game.")
        ELSE IF Len(self.players) >= st.RuleSet.num_players
        THEN Raise(st, "JoinError", "Game is full.")
        ELSE IF self.state # "waiting"
        THEN Raise(st, "JoinError", "Game is not accepting new players.")
        ELSE LET players == Append(self.players, player)
             IN  IF is_full(players, st.RuleSet)
                 THEN put(st, id, start(self, order), FALSE, <<>>)
                 ELSE put(st, id, [self EXCEPT !.players = players],
                          FALSE, <<>>)

\* An abort that leaves the turn as it is.
aborted_keeps_turn(self) == [self EXCEPT !.state = "aborted"]

\* An abort that also clears current_player.
aborted_clears_seat(self) ==
    [self EXCEPT !.state = "aborted", !.turn = -1, !.current_player = 0]

\* The fields abort sets on a game in play.
aborted(self) == [self EXCEPT !.state = "aborted", !.turn = -1]

abort(st, id) ==
    LET self == st.Game[id]
    IN  IF self.state = "waiting"
        THEN delete(st, id)
        ELSE IF self.state = "playing"
        THEN put(st, id, aborted(self), FALSE, <<>>)
        ELSE Raise(st, "AbortError",
                   "Cannot abort a game that has already been completed.")

\* db.get(pkey).user == users.User('cpu@mnk')
is_cpu(st, pkey) == st.Player[pkey].user = "cpu@mnk"

\* A count of the players left that takes the CPU players for humans.
humans_all(st, players) == Len(players)

\* The number of non-CPU players remove_player counts.
humans(st, players) ==
    Len(players) - Cardinality({i \in 1 .. Len(players) : is_cpu(st, players[i])})

remove_player(st, id, player) ==
    LET self == st.Game[id]
    IN  IF player \notin Range(self.players)
        THEN Raise(st, "LeaveError", "Player is not in game.")
        ELSE IF self.state = "waiting"
        THEN LET players == remove(self.players, player)
             IN  IF humans(st, players) > 0
                 THEN put(st, id, [self EXCEPT !.players = players],
                          FALSE, <<>>)
                 ELSE delete(st, id)
        ELSE IF self.state = "playing"
        THEN abort(st, id)
        ELSE Raise(st, "LeaveError",
                   "Cannot leave a game that has already been completed.")

\* Guards that do not test the state of the game.
move_check_any_state(self, rule_set, player, x, y) ==
    IF player \notin Range(self.players) THEN "Player not in game."
    ELSE IF self.current_player # index(self.players, player) + 1
    THEN "Not player's turn."
    ELSE IF x < 0 \/ x >= rule_set.m \/ y < 0 \/ y >= rule_set.n
    THEN "Invalid tile position."
    ELSE IF ~HasIndex(unpack_board(self.data), x, y) THEN "IndexError"
    ELSE IF unpack_board(self.data)[x + 1][y + 1] # 0
    THEN "Invalid tile position."
    ELSE ""

\* The guards of Game.move, in the order the code tests them: the message
\* of the MoveError raised, "IndexError" when board[x][y] does not exist,
\* "" when the move passes.
move_check(self, rule_set, player, x, y) ==
    IF player \notin Range(self.players) THEN "Player not in game."
    ELSE IF self.state # "playing" THEN "Game not in play."
    ELSE IF self.current_player # index(self.players, player) + 1
    THEN "Not player's turn."
    ELSE IF x < 0 \/ x >= rule_set.m \/ y < 0 \/ y >= rule_set.n
    THEN "Invalid tile position."
    ELSE IF ~HasIndex(unpack_board(self.data), x, y) THEN "IndexError"
    ELSE IF unpack_board(self.data)[x + 1][y + 1] # 0
    THEN "Invalid tile position."
    ELSE ""

\* A move that loses its stone.
place_lost(board, x, y, whose) == board

\* board[x][y] = whose_turn
place(board, x, y, whose) == [board EXCEPT ![x + 1][y + 1] = whose]

\* Ratings of a win where the loop over the seats does not skip the winner.
win_ratings_no_continue(Pl, players, player) ==
    [k \in DOMAIN Pl |->
        IF k = player THEN [Pl[k] EXCEPT !.wins = @ + 1, !.losses = @ + 1]
        ELSE IF k \in Range(players) THEN [Pl[k] EXCEPT !.losses = @ + 1]
        ELSE Pl[k]]

\* The rating counters after a win of player in a game with seats players.
win_ratings(Pl, players, player) ==
    [k \in DOMAIN Pl |->
        IF k = player THEN [Pl[k] EXCEPT !.wins = @ + 1]
        ELSE IF k \in Range(players) THEN [Pl[k] EXCEPT !.losses = @ + 1]
        ELSE Pl[k]]

\* The rating counters after a draw.
draw_ratings(Pl, players) ==
    [k \in DOMAIN Pl |->
        IF k \in Range(players) THEN [Pl[k] EXCEPT !.draws = @ + 1]
        ELSE Pl[k]]

\* rule_set.num_games += 1; rule_set.put()
count_game(rule_set) == [rule_set EXCEPT !.num_games = @ + 1]

\* An advance that looks up the seat of the turn just played.
advance_stale(self, rule_set) ==
    [self EXCEPT !.turn = self.turn + 1,
                 !.current_player = whose_turn(rule_set, self.turn)]

\* An advance that leaves the turn as it is.
advance_keeps_turn(self, rule_set) ==
    [self EXCEPT !.current_player = whose_turn(rule_set, self.turn + 1)]

\* self.turn += 1 and, when the game goes on,
\* self.current_player = rs.whose_turn(self.turn)
advance(self, rule_set) ==
    [self EXCEPT !.turn = self.turn + 1,
                 !.current_player = whose_turn(rule_set, self.turn + 1)]

\* A move_commit that tests for the full board before it tests for the win.
move_commit_draw_first(st, id, player, x, y) ==
    LET self  == st.Game[id]
        whose == self.current_player
        board == place(unpack_board(self.data), x, y, whose)
        turn  == self.turn + 1
        won   == is_win(st.RuleSet, board, index(self.players, player) + 1, x, y)
    IN  IF won \notin {"True", "False"}
        THEN Raise(st, won, "list index out of range")
        ELSE IF ~contains(board, 0)
        THEN put([st EXCEPT !.Player = draw_ratings(@, self.players),
                            !.RuleSet = count_game(@)],
                 id, [self EXCEPT !.turn = turn, !.state = "draw"], TRUE, board)
        ELSE IF won = "True"
        THEN put([st EXCEPT !.Player = win_ratings(@, self.players, player),
                            !.RuleSet = count_game(@)],
                 id, [self EXCEPT !.turn = turn, !.state = "win"], TRUE, board)
        ELSE put(st, id, advance(self, st.RuleSet), TRUE, board)

\* Game.move after its guards: the stone, the turn, the completion test,
\* the puts of the players and of the rule set, and last the put of the game.
move_commit(st, id, player, x, y) ==
    LET self  == st.Game[id]
        whose == self.current_player
        board == place(unpack_board(self.data), x, y, whose)
        turn  == self.turn + 1
        won   == is_win(st.RuleSet, board, index(self.players, player) + 1, x, y)
    IN  IF won \notin {"True", "False"}
        THEN Raise(st, won,
                   IF won = "IndexError" THEN "list index out of range"
                   ELSE "Support for exact k requirement has not been implemented yet.")
        ELSE IF won = "True"
        THEN put([st EXCEPT !.Player = win_ratings(@, self.players, player),
                            !.RuleSet = count_game(@)],
                 id, [self EXCEPT !.turn = turn, !.state = "win"], TRUE, board)
        ELSE IF ~contains(board, 0)
        THEN put([st EXCEPT !.Player = draw_ratings(@, self.players),
                            !.RuleSet = count_game(@)],
                 id, [self EXCEPT !.turn = turn, !.state = "draw"], TRUE, board)
        ELSE put(st, id, advance(self, st.RuleSet), TRUE, board)

move(st, id, player, x, y) ==
    LET check == move_check(st.Game[id], st.RuleSet, player, x, y)
    IN  IF check = "IndexError"
        THEN Raise(st, "IndexError", "list index out of range")
        ELSE IF check # ""
        THEN Raise(st, "MoveError", check)
        ELSE move_commit(st, id, player, x, y)

\* ---------------------------------------------------------------------
\* CpuPlayer.  cpu is the scratch state move() sets up: board, index,
\* board_width, board_height, win_length, per_turn, turns_left.  s is what
\* the scan collects: the lists force and moves, and the ForcedMove or
\* IndexError that ends it (raised, with the coordinate of a ForcedMove).

valid(cpu, x, y) ==
    x >= 0 /\ x < cpu.board_width /\ y >= 0 /\ y < cpu.board_height

min(a, b) == IF a < b THEN a ELSE b

NoScan == [force |-> <<>>, moves |-> <<>>, raised |-> "", loc |-> <<>>]

\* handle_move with a winning row of the CPU queued like a block instead of
\* raising ForcedMove.
handle_move_queue_win(cpu, s, mv, player, length, avail, oavail) ==
    LET is_cpu_row == player = cpu.index
        max_expansion ==
            min(IF is_cpu_row THEN cpu.turns_left ELSE cpu.per_turn, avail)
        forced == length + max_expansion >= cpu.win_length
        score == length * 6 + avail
        s1 == IF forced THEN [s EXCEPT !.force = Append(@, mv)] ELSE s
    IN  IF length + avail + oavail >= cpu.win_length
        THEN [s1 EXCEPT !.moves = Append(@, <<score, mv>>)]
        ELSE s1

\* handle_move that never queues the block of an opponent's row.
handle_move_no_block(cpu, s, mv, player, length, avail, oavail) ==
    LET is_cpu_row == player = cpu.index
        max_expansion ==
            min(IF is_cpu_row THEN cpu.turns_left ELSE cpu.per_turn, avail)
        forced == length + max_expansion >= cpu.win_length
        score == length * 6 + avail +
                 (IF is_cpu_row THEN cpu.win_length * 2 ELSE 0)
    IN  IF forced /\ is_cpu_row
        THEN [s EXCEPT !.raised = "ForcedMove", !.loc = mv]
        ELSE IF length + avail + oavail >= cpu.win_length
             THEN [s EXCEPT !.moves = Append(@, <<score, mv>>)]
             ELSE s

handle_move(cpu, s, mv, player, length, avail, oavail) ==
    LET is_cpu_row == player = cpu.index
        max_expansion ==
            min(IF is_cpu_row THEN cpu.turns_left ELSE cpu.per_turn, avail)
        forced == length + max_expansion >= cpu.win_length
        score == length * 6 + avail +
                 (IF is_cpu_row THEN cpu.win_length * 2 ELSE 0)
    IN  IF forced /\ is_cpu_row
        THEN [s EXCEPT !.raised = "ForcedMove", !.loc = mv]
        ELSE LET s1 == IF forced THEN [s EXCEPT !.force = Append(@, mv)]
                       ELSE s
             IN  IF length + avail + oavail >= cpu.win_length
                 THEN [s1 EXCEPT !.moves = Append(@, <<score, mv>>)]
                 ELSE s1

\* One side of the loop of check over o: the free cells f, the stones u of
\* prev_player and the adjacent empty cell c (<<>> for None), from the cell
\* (px, py) in steps of (sx, sy), until a cell that is off the board or
\* holds another seat.
NoExpand == [f |-> 0, u |-> 0, c |-> <<>>, raised |-> FALSE]
RECURSIVE expand(_, _, _, _, _, _, _, _, _)
expand(cpu, prev_player, px, py, sx, sy, o, lim, acc) ==
    IF o >= lim THEN acc
    ELSE
    LET ox == px + sx * o
        oy == py + sy * o
    IN  IF ~valid(cpu, ox, oy) THEN acc
        ELSE IF ~HasIndex(cpu.board, ox, oy) THEN [acc EXCEPT !.raised = TRUE]
        ELSE IF cpu.board[ox + 1][oy + 1] = 0
        THEN expand(cpu, prev_player, px, py, sx, sy, o + 1, lim,
                    [acc EXCEPT !.f = @ + 1,
                                !.c = IF o = 0 THEN <<<<ox, oy>>>> ELSE @])
        ELSE IF cpu.board[ox + 1][oy + 1] = prev_player
        THEN expand(cpu, prev_player, px, py, sx, sy, o + 1, lim,
                    [acc EXCEPT !.u = @ + 1])
        ELSE acc

\* check: th is the pair (cur_player, row_len) the sweep threads along.
check(cpu, s, th, x, y, dx, dy) ==
    LET prev_player == th[1]
        row_len == th[2]
    IN  IF valid(cpu, x, y) /\ ~HasIndex(cpu.board, x, y)
        THEN [s |-> [s EXCEPT !.raised = "IndexError"], th |-> th]
        ELSE
        LET cur_player == IF valid(cpu, x, y)
                          THEN cpu.board[x + 1][y + 1] ELSE 0
        IN  IF cur_player > 0 /\ cur_player = prev_player
            THEN [s |-> s, th |-> <<cur_player, row_len + 1>>]
            ELSE IF prev_player > 0
            THEN LET lim == cpu.win_length - row_len
                     a == expand(cpu, prev_player, x, y, dx, dy, 0, lim,
                                 NoExpand)
                     b == expand(cpu, prev_player,
                                 x - dx * (1 + row_len),
                                 y - dy * (1 + row_len),
                                 -dx, -dy, 0, lim, NoExpand)
                     s1 == IF a.c # <<>>
                           THEN handle_move(cpu, s, a.c[1], prev_player,
                                            row_len + a.u, a.f, b.f)
                           ELSE s
                     s2 == IF b.c # <<>> /\ s1.raised = ""
                           THEN handle_move(cpu, s1, b.c[1], prev_player,
                                            row_len + b.u, b.f, a.f)
                           ELSE s1
                 IN  IF a.raised \/ b.raised
                     THEN [s |-> [s EXCEPT !.raised = "IndexError"],
                           th |-> th]
                     ELSE [s |-> s2, th |-> <<cur_player, 1>>]
            ELSE [s |-> s, th |-> <<cur_player, 1>>]

\* The calls of check in one pass of an outer loop of move, in the order
\* the code makes them; t names the pair (cp1, rl1), (cp2, rl2), (cp3, rl3).
step(t, x, y, dx, dy) == [t |-> t, x |-> x, y |-> y, dx |-> dx, dy |-> dy]

\* "Horizontal checks", row y
horizontal(cpu, y) ==
    LET w == IF y = 0 THEN 1 ELSE 3
        ox == cpu.board_width - 1
    IN  [i \in 1 .. (cpu.board_width + 1) * w |->
            LET x == (i - 1) \div w
                t == ((i - 1) % w) + 1
            IN  IF t = 1 THEN step(1, x, y, 1, 0)
                ELSE IF t = 2 THEN step(2, x, y + x, 1, 1)
                ELSE step(3, ox - x, y + x, -1, 1)]

\* "Vertical checks", column x
vertical(cpu, x) ==
    [i \in 1 .. (cpu.board_height + 1) * 3 |->
        LET y == (i - 1) \div 3
            t == ((i - 1) % 3) + 1
        IN  IF t = 1 THEN step(1, x, y, 0, 1)
            ELSE IF t = 2 THEN step(2, y + x, y, 1, 1)
            ELSE step(3, x - y, y, -1, 1)]

sweeps(cpu) ==
    [j \in 1 .. (cpu.board_height + cpu.board_width) |->
        IF j <= cpu.board_height
        THEN horizontal(cpu, j - 1)
        ELSE vertical(cpu, j - cpu.board_height - 1)]

\* One pass of an outer loop of move: the calls of line from its call i on,
\* with the three pairs ths.
RECURSIVE sweep(_, _, _, _, _)
sweep(cpu, s, line, i, ths) ==
    IF s.raised # "" \/ i > Len(line) THEN s
    ELSE LET c == line[i]
             r == check(cpu, s, ths[c.t], c.x, c.y, c.dx, c.dy)
         IN  sweep(cpu, r.s, line, i + 1, [ths EXCEPT ![c.t] = r.th])

\* The scan of move: the passes from pass j on, each starting with
\* cp1, rl1 = 0, 0 and so on.
RECURSIVE scan(_, _, _, _)
scan(cpu, s, lines, j) ==
    IF s.raised # "" \/ j > Len(lines) THEN s
    ELSE scan(cpu,
              sweep(cpu, s, lines[j], 1, <<<<0, 0>>, <<0, 0>>, <<0, 0>>>>),
              lines, j + 1)

\* "Merge moves to the same location": for the entry a the inner loop runs
\* over b in xrange(len(m) - 1, a); an entry b at the coordinate of a would
\* be merged into a (the larger score plus half the smaller) and deleted.
\* a stays below len(m), so the range holds no b.
merge_range(m, a) == {b \in 0 .. (Len(m) - 1) : b >= Len(m) - 1 /\ b < a}
merge(m) ==
    [a \in 1 .. Len(m) |->
        LET same == {b \in merge_range(m, a - 1) : m[b + 1][2] = m[a][2]}
        IN  IF same = {} THEN m[a]
            ELSE LET bv == m[(CHOOSE b \in same : TRUE) + 1][1]
                     av == m[a][1]
                 IN  <<(IF av < bv THEN bv ELSE av) +
                       ((IF av < bv THEN av ELSE bv) \div 2), m[a][2]>>]

\* int(x[0] * self.cleverness), cleverness = 10.0
rank(e) == e[1] * 10

\* The coordinate move takes from the sorted list: the first entry that is
\* in force when there is one, else the first entry.  The sort is descending
\* by rank and leaves entries of equal rank in a random order.
best(m, force) ==
    LET blocking == {e \in Range(m) : e[2] \in Range(force)}
        among == IF blocking # {} THEN blocking ELSE Range(m)
    IN  {e[2] : e \in {e \in among : \A o \in among : rank(o) <= rank(e)}}

\* The fallback of move: the positions in order of closeness to the centre
\* (a stable sort of the row-major list), and the first empty one of them.
closer(cpu, a, b) ==
    LET cx == cpu.board_width \div 2
        cy == cpu.board_height \div 2
        da == (a[1] - cx) * (a[1] - cx) + (a[2] - cy) * (a[2] - cy)
        db == (b[1] - cx) * (b[1] - cx) + (b[2] - cy) * (b[2] - cy)
    IN  \/ da < db
        \/ da = db /\ (a[2] < b[2] \/ (a[2] = b[2] /\ a[1] < b[1]))

locs(cpu) ==
    LET all == (0 .. (cpu.board_width - 1)) \X (0 .. (cpu.board_height - 1))
    IN  [i \in 1 .. Cardinality(all) |->
            CHOOSE c \in all :
                Cardinality({d \in all : closer(cpu, d, c)}) = i - 1]

\* for loc in locs: if not self.board[loc[0]][loc[1]]: break
RECURSIVE first_empty(_, _, _)
first_empty(cpu, l, i) ==
    IF ~HasIndex(cpu.board, l[i][1], l[i][2]) THEN "IndexError"
    ELSE IF cpu.board[l[i][1] + 1][l[i][2] + 1] = 0 \/ i = Len(l) THEN l[i]
    ELSE first_empty(cpu, l, i + 1)

\* The coordinates CpuPlayer.move may pass to game.move, or {"IndexError"}.
choose(cpu) ==
    LET s == scan(cpu, NoScan, sweeps(cpu), 1)
    IN  IF s.raised = "IndexError" THEN {"IndexError"}
        ELSE IF s.raised = "ForcedMove" THEN {s.loc}
        ELSE IF Len(s.moves) > 0 THEN best(merge(s.moves), s.force)
        ELSE {first_empty(cpu, locs(cpu), 1)}

\* CpuPlayer.move(game) for the CPU player whose turn it is: the results
\* the random order of the sort allows.
cpu_move(st, id, player) ==
    LET game == st.Game[id]
        cpu == [board |-> unpack_board(game.data),
                index |-> index(game.players, player) + 1,
                board_width |-> st.RuleSet.m,
                board_height |-> st.RuleSet.n,
                win_length |-> st.RuleSet.k,
                per_turn |-> st.RuleSet.p,
                turns_left |-> turns_left(st.RuleSet, game.turn)]
    IN  {IF loc = "IndexError"
         THEN Raise(st, "IndexError", "list index out of range")
         ELSE move(st, id, player, loc[1], loc[2]) : loc \in choose(cpu)}

\* Game.handle_cpu
handle_cpu(st, id) ==
    LET self == st.Game[id]
    IN  IF self.state # "playing" THEN {Ok(st)}
        ELSE IF is_cpu(st, self.players[self.current_player])
        THEN cpu_move(st, id, self.players[self.current_player])
        ELSE {Ok(st)}

\* The keys of the CPU Player entities, in the order the datastore creates
\* and lists them.
CpuKeys == <<"cpu1", "cpu2", "cpu3", "cpu4">>

\* The player CpuPlayer.join chooses: the first CPU player that is not in the
\* game, or the next new one when every CPU player is in it.
cpu_key(st, id) ==
    LET free == {i \in 1 .. Len(CpuKeys) :
                    CpuKeys[i] \notin Range(st.Game[id].players)}
    IN  CpuKeys[CHOOSE i \in free : \A j \in free : i <= j]

\* CpuPlayer.join(game): the new player is put before it joins.
cpu_join(st, id, order) ==
    LET key == cpu_key(st, id)
        st1 == IF key \in DOMAIN st.Player THEN st
               ELSE [st EXCEPT !.Player = @ @@ (key :>
                        [user |-> "cpu@mnk", wins |-> 0, losses |-> 0,
                         draws |-> 0])]
    IN  add_player(st1, id, key, order)

\* ---------------------------------------------------------------------
\* The request handlers of main.GameService.  ServiceHandler.get turns an
\* exception into the response {status: error, type, message}; what the
\* handler had put before the exception stays in the datastore.

Store == [Game |-> Game, Player |-> Player, RuleSet |-> RuleSet]

\* Game.get_by_id(id), then the method call, or ValueError for no entity.
on_game(id, call) ==
    IF Game[id] = None
    THEN Raise(Store, "ValueError", "Invalid game id.")
    ELSE call

\* The counters stay within the bound of the model.
WithinCount(st) ==
    /\ st.RuleSet.num_games <= MaxCount
    /\ \A k \in DOMAIN st.Player :
          /\ st.Player[k].wins <= MaxCount
          /\ st.Player[k].losses <= MaxCount
          /\ st.Player[k].draws <= MaxCount

\* The end of a request: the datastore as the handler left it and the
\* response, kept with the request it answers.
respond(action, id, player, r) ==
    /\ WithinCount(r.st)
    /\ Game' = r.st.Game
    /\ Player' = r.st.Player
    /\ RuleSet' = r.st.RuleSet
    /\ response' = [action |-> action, game |-> id, player |-> player,
                    status |-> IF r.error = NoError THEN "success" ELSE "error",
                    type |-> r.error.type, message |-> r.error.message]
    /\ UNCHANGED pending

create_game(player) ==
    /\ next_id <= MaxGames
    /\ next_id' = next_id + 1
    /\ LET st == [Store EXCEPT !.Game[next_id] = new_game(RuleSet)]
       IN  respond("create_game", next_id, player,
                   add_player(st, next_id, player, <<player>>))

\* The tail of a handler that returns self.get_game_status(game): after the
\* call r, handle_cpu on the game.
status_after(r, id) ==
    IF r.error # NoError THEN {r} ELSE handle_cpu(r.st, id)

join_game(id, player) ==
    /\ UNCHANGED next_id
    /\ IF Game[id] = None
       THEN respond("join_game", id, player, on_game(id, Ok(Store)))
       ELSE \E order \in shuffle(Append(Game[id].players, player)) :
               \E r \in status_after(add_player(Store, id, player, order),
                                     id) :
                  respond("join_game", id, player, r)

leave_game(id, player) ==
    /\ UNCHANGED next_id
    /\ respond("leave_game", id, player,
               on_game(id, remove_player(Store, id, player)))

put_tile(id, player, x, y) ==
    /\ UNCHANGED next_id
    /\ \E r \in status_after(on_game(id, move(Store, id, player, x, y)), id) :
          respond("put_tile", id, player, r)

\* get_game_status(game, turn): known says that turn is given and is the
\* turn of the game, and then the handler returns False.
get_game_status(id, player, known) ==
    /\ UNCHANGED next_id
    /\ \E r \in IF known THEN {on_game(id, Ok(Store))}
                 ELSE status_after(on_game(id, Ok(Store)), id) :
          respond("get_game_status", id, player, r)

add_cpu_player(id, player) ==
    /\ UNCHANGED next_id
    /\ IF Game[id] = None
       THEN respond("add_cpu_player", id, player, on_game(id, Ok(Store)))
       ELSE IF player \notin Range(Game[id].players)
       THEN respond("add_cpu_player", id, player,
                    Raise(Store, "Error",
                          "You cannot add a CPU player to a game you're not in."))
       ELSE \E order \in shuffle(Append(Game[id].players,
                                        cpu_key(Store, id))) :
               \E r \in status_after(cpu_join(Store, id, order), id) :
                  respond("add_cpu_player", id, player, r)

\* The loop of cpu_battle: i more CPU players join.
RECURSIVE cpu_joins(_, _, _, _)
cpu_joins(r, id, i, order) ==
    IF i = 0 \/ r.error # NoError THEN r
    ELSE cpu_joins(cpu_join(r.st, id, order), id, i - 1, order)

cpu_battle(player) ==
    /\ next_id <= MaxGames
    /\ next_id' = next_id + 1
    /\ LET st == [Store EXCEPT !.Game[next_id] = new_game(RuleSet)]
       IN  \E order \in shuffle(SubSeq(CpuKeys, 1, RuleSet.num_players)) :
              respond("cpu_battle", next_id, player,
                      cpu_joins(Ok(st), next_id, RuleSet.num_players, order))

\* The games get_games(mode) lists for player.
results(mode, player) ==
    {id \in GameIds :
        /\ Game[id] # None
        /\ \/ /\ mode = "play"
              /\ \/ Game[id].state = "waiting"
                 \/ /\ Game[id].state = "playing"
                    /\ player \in Range(Game[id].players)
           \/ /\ mode = "view"
              /\ Game[id].state = "playing"
           \/ /\ mode = "past"
              /\ Game[id].state \in {"aborted", "win", "draw"}
              /\ player \in Range(Game[id].players)}

\* get_games where the first listed game that has been idle for too long is
\* id: it is aborted and the loop ends; id = 0 when no listed game has been.
\* Time may pass freely between two requests, so any listed game that is
\* waiting or playing can be that game.
get_games(mode, player, id) ==
    /\ UNCHANGED next_id
    /\ IF id = 0
       THEN respond("get_games", 0, player, Ok(Store))
       ELSE /\ id \in results(mode, player)
            /\ Game[id].state \in {"waiting", "playing"}
            /\ respond("get_games", id, player, abort(Store, id))

\* The coordinates a request may carry: in range and just outside.
Xs == -1 .. RuleSet.m
Ys == -1 .. RuleSet.n

Init ==
    /\ RuleSet \in RuleSets
    /\ Game = [id \in GameIds |-> None]
    /\ Player = [k \in Humans |->
                    [user |-> "anonymous@mnk", wins |-> 0, losses |-> 0,
                     draws |-> 0]]
    /\ next_id = 1
    /\ response = [action |-> "", game |-> 0, player |-> "",
                   status |-> "", type |-> "", message |-> ""]
    /\ Idle

Next ==
    \/ \E player \in Humans : create_game(player)
    \/ \E id \in GameIds, player \in Humans : join_game(id, player)
    \/ \E id \in GameIds, player \in Humans : leave_game(id, player)
    \/ \E id \in GameIds, player \in Humans, x \in Xs, y \in Ys :
          put_tile(id, player, x, y)
    \/ \E mode \in {"play", "view", "past"}, player \in Humans,
          id \in GameIds \cup {0} :
          get_games(mode, player, id)
    \/ \E id \in GameIds, player \in Humans, known \in BOOLEAN :
          get_game_status(id, player, known)
    \/ \E id \in GameIds, player \in Humans : add_cpu_player(id, player)
    \/ \E player \in Humans : cpu_battle(player)

Spec == Init /\ [][Next]_vars

\* ---------------------------------------------------------------------
\* Properties.  The board of a claim is the m-by-n grid of the rule set:
\* the cell (x, y) holds the digit at data[x][y], and a cell the stored
\* data lacks is empty.

Stored == {id \in GameIds : Game[id] # None}
Everyone == DOMAIN Player
Terminal == {"win", "draw", "aborted"}

Cell(data, x, y) ==
    IF x >= 0 /\ y >= 0 /\ HasIndex(data, x, y)
    THEN int(data[x + 1][y + 1])
    ELSE 0

Cells == (0 .. (RuleSet.m - 1)) \X (0 .. (RuleSet.n - 1))

\* The number of stones on the stored board.
Stones(data) ==
    Cardinality(UNION {{<<i, j>> : j \in {j \in 1 .. Len(data[i]) :
                                               data[i][j] # "0"}} :
                       i \in 1 .. Len(data)})

Seat(g, player) == index(g.players, player) + 1
Seated(g, player) == player \in Range(g.players)

\* The guards of the move protocol, as the specification lists them.
InRange(x, y) == x >= 0 /\ x < RuleSet.m /\ y >= 0 /\ y < RuleSet.n
Legal(g, player, x, y) ==
    /\ Seated(g, player)
    /\ g.state = "playing"
    /\ Seat(g, player) = g.current_player
    /\ InRange(x, y)
    /\ Cell(g.data, x, y) = 0

\* The board after seat puts a stone on (x, y).
After(data, seat, x, y) ==
    [c \in Cells |-> IF c = <<x, y>> THEN seat ELSE Cell(data, c[1], c[2])]

\* Some segment of k cells of the grid through (x, y), along one of the
\* four axes, holds only stones of seat.
Axes == {<<1, 0>>, <<0, 1>>, <<1, 1>>, <<-1, 1>>}
KLine(B, seat, x, y) ==
    \E d \in Axes : \E s \in 0 .. (RuleSet.k - 1) :
        \A j \in 0 .. (RuleSet.k - 1) :
            LET c == <<x + (j - s) * d[1], y + (j - s) * d[2]>>
            IN  c \in Cells /\ B[c] = seat

Full(B) == \A c \in Cells : B[c] # 0

\* The stone of seat is on (x, y) of game id in store st, one turn later.
Committed(st, id, g, seat, x, y) ==
    /\ st.Game[id] # None
    /\ Cell(st.Game[id].data, x, y) = seat
    /\ st.Game[id].turn = g.turn + 1

\* C1 as stated: every stored game that is not aborted (waiting, playing,
\* win or draw) has as many non-zero board cells as its turn says.
C1_StonesEqualTurn ==
    \A id \in Stored :
        Game[id].state # "aborted" => Stones(Game[id].data) = Game[id].turn

\* C1, amended: a stored game that is playing, won or drawn has as many
\* non-zero board cells as its turn says; a waiting game has an empty board
\* and turn -1.
C1_StonesEqualTurnOnceStarted ==
    \A id \in Stored :
        /\ Game[id].state \in {"playing", "win", "draw"}
              => Stones(Game[id].data) = Game[id].turn
        /\ Game[id].state = "waiting"
              => Stones(Game[id].data) = 0 /\ Game[id].turn = -1

C1_Witness ==
    \E id \in Stored :
        /\ response.action = "put_tile" /\ response.status = "success"
        /\ Game[id].state = "playing" /\ Game[id].turn = 2

\* C2: a move is committed (the cell holds the mover's seat, turn + 1) if
\* and only if the mover is seated, the game is playing, it is the mover's
\* turn and (x, y) is an empty cell of the m-by-n board; otherwise it fails
\* with the MoveError of the first violated guard and the games, the rating
\* counters and num_games stay as they were.
C2_MoveIffLegal ==
    \A id \in Stored : \A player \in Everyone : \A x \in Xs : \A y \in Ys :
        LET g == Game[id]
            r == move(Store, id, player, x, y)
        IN  IF Legal(g, player, x, y)
            THEN r.error = NoError
                 /\ Committed(r.st, id, g, Seat(g, player), x, y)
            ELSE /\ r.error.type = "MoveError"
                 /\ r.error.message =
                      IF ~Seated(g, player) THEN "Player not in game."
                      ELSE IF g.state # "playing" THEN "Game not in play."
                      ELSE IF Seat(g, player) # g.current_player
                      THEN "Not player's turn."
                      ELSE "Invalid tile position."
                 /\ r.st = Store

\* C2, the failing case: the player to move put a stone on an empty cell of
\* the board, the request was answered with IndexError, the game is still
\* at turn 0, and the win was counted all the same.
C2_Witness ==
    \E id \in Stored :
        /\ response.action = "put_tile" /\ response.type = "IndexError"
        /\ Game[id].state = "playing" /\ Game[id].turn = 0
        /\ Stones(Game[id].data) = 0
        /\ Player[response.player].wins = 1
        /\ RuleSet.num_games = 1

\* C3: when a committed move (the stone is on the stored board, turn + 1)
\* completes k in a row for the mover, the game is in state win, the mover
\* has 1 more win, every other seated player 1 more loss, nobody's draws
\* changed and num_games is 1 larger.
C3_WinRatings ==
    \A id \in Stored : \A player \in Everyone : \A x \in Xs : \A y \in Ys :
        LET g == Game[id]
            r == move(Store, id, player, x, y)
        IN  (/\ Seated(g, player)
             /\ Committed(r.st, id, g, Seat(g, player), x, y)
             /\ KLine(After(g.data, Seat(g, player), x, y),
                      Seat(g, player), x, y))
            => /\ r.st.Game[id].state = "win"
               /\ r.st.RuleSet.num_games = RuleSet.num_games + 1
               /\ \A k \in Everyone :
                     /\ r.st.Player[k].draws = Player[k].draws
                     /\ r.st.Player[k].wins =
                          Player[k].wins + (IF k = player THEN 1 ELSE 0)
                     /\ r.st.Player[k].losses =
                          Player[k].losses +
                          (IF k # player /\ Seated(g, k) THEN 1 ELSE 0)

C3_Witness ==
    \E id \in Stored :
        /\ response.action = "put_tile" /\ response.status = "success"
        /\ Game[id].state = "win"
        /\ Len(Game[id].players) = 3
        /\ Player[response.player].wins = 1
        /\ \A k \in Range(Game[id].players) \ {response.player} :
              Player[k].losses = 1
        /\ RuleSet.num_games = 1

\* C4: a move that fills the last empty cell ends the game: in win when it
\* completes k in a row, otherwise in draw with 1 added to the draws of
\* every seated player, wins and losses unchanged and 1 added to num_games.
\* A move without a win that leaves an empty cell leaves the game playing.
C4_DrawOnFullBoard ==
    \A id \in Stored : \A player \in Everyone : \A x \in Xs : \A y \in Ys :
        LET g == Game[id]
            r == move(Store, id, player, x, y)
            B == After(g.data, Seat(g, player), x, y)
            line == KLine(B, Seat(g, player), x, y)
        IN  Legal(g, player, x, y) =>
            /\ (Full(B) /\ line) => r.st.Game[id].state = "win"
            /\ (Full(B) /\ ~line) =>
                  /\ r.st.Game[id].state = "draw"
                  /\ r.st.RuleSet.num_games = RuleSet.num_games + 1
                  /\ \A k \in Everyone :
                        /\ r.st.Player[k].wins = Player[k].wins
                        /\ r.st.Player[k].losses = Player[k].losses
                        /\ r.st.Player[k].draws =
                             Player[k].draws + (IF Seated(g, k) THEN 1 ELSE 0)
            /\ (~Full(B) /\ ~line) => r.st.Game[id].state = "playing"

C4_Witness ==
    \E id \in Stored :
        /\ response.action = "put_tile" /\ response.status = "success"
        /\ Game[id].state = "draw"
        /\ Stones(Game[id].data) = RuleSet.m * RuleSet.n
        /\ \A k \in Range(Game[id].players) : Player[k].draws = 1

\* C5: a game in state win, draw or aborted rejects every move, addPlayer,
\* removePlayer and abort with an error and without any change, and no
\* request ever changes a terminal game.
C5_Rejects ==
    \A id \in Stored : Game[id].state \in Terminal =>
        /\ abort(Store, id).error # NoError
        /\ abort(Store, id).st = Store
        /\ \A player \in Everyone :
              /\ remove_player(Store, id, player).error # NoError
              /\ remove_player(Store, id, player).st = Store
              /\ \A order \in shuffle(Append(Game[id].players, player)) :
                    /\ add_player(Store, id, player, order).error # NoError
                    /\ add_player(Store, id, player, order).st = Store
              /\ \A x \in Xs : \A y \in Ys :
                    /\ move(Store, id, player, x, y).error # NoError
                    /\ move(Store, id, player, x, y).st = Store

C5_Frozen ==
    \A id \in GameIds :
        (Game[id] # None /\ Game[id].state \in Terminal) => Game'[id] = Game[id]

C5_TerminalIsFinal == [](C5_Rejects) /\ [][C5_Frozen]_vars

C5_Witness ==
    \E id \in Stored :
        /\ Game[id].state \in Terminal
        /\ response.status = "error"
        /\ response.message = "Game not in play."

\* C6: while a game is playing its currentPlayer is whoseTurn(turn); a move
\* is accepted only from that seat, and every other seated player who moves
\* is rejected with "Not player's turn." and changes nothing.
C6_CurrentPlayerIsWhoseTurn ==
    \A id \in Stored : Game[id].state = "playing" =>
        /\ Game[id].current_player = whose_turn(RuleSet, Game[id].turn)
        /\ \A player \in Range(Game[id].players) : \A x \in Xs : \A y \in Ys :
              LET r == move(Store, id, player, x, y)
                  seat == Seat(Game[id], player)
              IN  /\ r.error = NoError
                        => seat = whose_turn(RuleSet, Game[id].turn)
                  /\ seat # whose_turn(RuleSet, Game[id].turn)
                        => /\ r.error = [type |-> "MoveError",
                                         message |-> "Not player's turn."]
                           /\ r.st = Store

C6_Witness ==
    \E id \in Stored :
        /\ Game[id].state = "playing" /\ Game[id].turn = 2
        /\ Game[id].current_player = 2 /\ RuleSet.p = 2
        /\ response.action = "put_tile"
        /\ response.message = "Not player's turn."
        /\ Seat(Game[id], response.player) = 1

\* C7 as stated: a stored game is playing if and only if all its seats
\* are taken and turn >= 0.
C7_PlayingIff ==
    \A id \in Stored :
        Game[id].state = "playing"
            <=> (Len(Game[id].players) = RuleSet.num_players
                 /\ Game[id].turn >= 0)

\* C7, amended: a stored game is playing, won or drawn if and only if all
\* its seats are taken and turn >= 0; so a playing game has all seats taken
\* and turn >= 0.
C7_StartedIff ==
    \A id \in Stored :
        Game[id].state \in {"playing", "win", "draw"}
            <=> (Len(Game[id].players) = RuleSet.num_players
                 /\ Game[id].turn >= 0)

C7_Witness ==
    \E id \in Stored :
        /\ Game[id].state = "win"
        /\ Len(Game[id].players) = RuleSet.num_players
        /\ Game[id].turn >= 0

\* C8: a stored game is waiting if and only if it has fewer players than
\* seats and turn = -1, in every state of its life, aborted games included.
C8_WaitingIff ==
    \A id \in Stored :
        Game[id].state = "waiting"
            <=> (Len(Game[id].players) < RuleSet.num_players
                 /\ Game[id].turn = -1)

C8_Witness ==
    \E id \in Stored :
        /\ Game[id].state = "aborted" /\ Game[id].turn = -1
        /\ response.action = "get_games"

\* C9: addPlayer of a player who is not seated, on a waiting game: while a
\* seat stays free the game stays waiting with turn -1 and the player
\* appended behind the others; with the last seat taken the players are a
\* rearrangement of exactly those who joined, the game is playing, turn is
\* 0, currentPlayer is 1 and the board is empty.
C9_AddPlayer ==
    \A id \in Stored : \A player \in Everyone :
        (Game[id].state = "waiting" /\ ~Seated(Game[id], player)) =>
            \A order \in shuffle(Append(Game[id].players, player)) :
                LET g == Game[id]
                    r == add_player(Store, id, player, order)
                    h == r.st.Game[id]
                    joined == Append(g.players, player)
                IN  /\ r.error = NoError
                    /\ r.st = [Store EXCEPT !.Game[id] = h]
                    /\ h.data = g.data
                    /\ IF Len(joined) < RuleSet.num_players
                       THEN h = [g EXCEPT !.players = joined]
                            /\ h.state = "waiting" /\ h.turn = -1
                       ELSE /\ Len(h.players) = RuleSet.num_players
                            /\ Range(h.players) = Range(joined)
                            /\ Cardinality(Range(h.players)) = Len(h.players)
                            /\ h.state = "playing"
                            /\ h.turn = 0
                            /\ h.current_player = 1
                            /\ Stones(h.data) = 0

C9_Witness ==
    \E id \in Stored :
        /\ response.action = "join_game" /\ response.status = "success"
        /\ Game[id].state = "playing" /\ Game[id].turn = 0
        /\ Len(Game[id].players) = 3
        /\ Game[id].players[1] = response.player

\* C10: removePlayer by a seated player of a playing game, whoever's turn
\* it is, sets state to aborted and turn to -1 and changes nothing else.
C10_LeaveAborts ==
    \A id \in Stored : \A player \in Everyone :
        (Game[id].state = "playing" /\ Seated(Game[id], player)) =>
            LET r == remove_player(Store, id, player)
            IN  /\ r.error = NoError
                /\ r.st = [Store EXCEPT !.Game[id] =
                              [Game[id] EXCEPT !.state = "aborted",
                                               !.turn = -1]]

C10_Witness ==
    \E id \in Stored :
        /\ response.action = "leave_game" /\ response.status = "success"
        /\ Game[id].state = "aborted" /\ Game[id].turn = -1
        /\ Stones(Game[id].data) = 2
        /\ Seat(Game[id], response.player) # Game[id].current_player

\* ---------------------------------------------------------------------
\* The lobby: a rule set with four seats on a single cell, so that three
\* players can wait in a game and one of them can leave.

LobbyRuleSets == {rs(1, 1, 1, 1, 1, 4)}

LobbyInit ==
    /\ RuleSet \in LobbyRuleSets
    /\ Game = [id \in GameIds |-> None]
    /\ Player = [k \in Humans |->
                    [user |-> "anonymous@mnk", wins |-> 0, losses |-> 0,
                     draws |-> 0]]
    /\ next_id = 1
    /\ response = [action |-> "", game |-> 0, player |-> "",
                   status |-> "", type |-> "", message |-> ""]
    /\ Idle

LobbySpec == LobbyInit /\ [][Next]_vars

\* The seats of players without the seat of player, in their order.
Others(players, player) == SelectSeq(players, LAMBDA k : k # player)

\* C11: removePlayer on a waiting game.  A seated player's seat is removed
\* and the other seats keep their order; the game is deleted exactly when
\* no seat of a player who is not a CPU is left, and otherwise stays waiting
\* with turn -1; nothing else changes.  A player who is not seated gets
\* LeaveError and nothing changes.
C11_LeaveWaiting ==
    \A id \in Stored : \A player \in Everyone :
        Game[id].state = "waiting" =>
            LET g == Game[id]
                r == remove_player(Store, id, player)
                rest == Others(g.players, player)
            IN  IF Seated(g, player)
                THEN /\ r.error = NoError
                     /\ IF \E k \in Range(rest) : Player[k].user # "cpu@mnk"
                        THEN /\ r.st = [Store EXCEPT !.Game[id] =
                                           [g EXCEPT !.players = rest]]
                             /\ r.st.Game[id].state = "waiting"
                             /\ r.st.Game[id].turn = -1
                        ELSE r.st = [Store EXCEPT !.Game[id] = None]
                ELSE /\ r.error = [type |-> "LeaveError",
                                   message |-> "Player is not in game."]
                     /\ r.st = Store

\* A player left a waiting game of three: a human and a CPU stay seated, in
\* the order they had.
C11_Witness ==
    \E id \in Stored :
        /\ response.action = "leave_game" /\ response.status = "success"
        /\ Game[id].state = "waiting"
        /\ Len(Game[id].players) = 2
        /\ response.player \notin Range(Game[id].players)
        /\ is_cpu(Store, Game[id].players[1])

\* The seat to move in game id is a CPU player's.
CpuToMove(id) ==
    /\ Game[id].state = "playing"
    /\ is_cpu(Store, Game[id].players[Game[id].current_player])

\* C12: when a put_tile that succeeded, or a join_game that succeeded,
\* returns, the game is not left playing with a CPU seat to move: the CPU
\* moves have been made until the game has ended or a human is to move.
C12_NoCpuToMove ==
    \A id \in Stored :
        (/\ response.action \in {"put_tile", "join_game"}
         /\ response.status = "success"
         /\ response.game = id)
        => ~CpuToMove(id)

\* C12, the failing case: a put_tile succeeded in a game with two stones per
\* turn, the CPU has put one stone and is still to move.
C12_Witness ==
    \E id \in Stored :
        /\ response.action = "put_tile" /\ response.status = "success"
        /\ response.game = id
        /\ CpuToMove(id)
        /\ RuleSet.p = 2
        /\ Game[id].turn = 2

\* ---------------------------------------------------------------------
\* A game against the CPU on the 3-by-3 board: the state after create_game
\* and add_cpu_player, for either order of the seats, and from there the
\* requests of the human player that move the game on.

CpuRuleSets == {rs(3, 3, 3, 1, 1, 2), rs(3, 3, 3, 2, 1, 2)}

\* The store when the CPU player has taken the last seat of the game.
CpuSeated(rule_set, order) ==
    [Game |-> [id \in GameIds |->
                  start([new_game(rule_set) EXCEPT
                            !.data = [i \in 1 .. rule_set.m |->
                                         [j \in 1 .. rule_set.n |-> "0"]]],
                        order)],
     Player |-> [k \in Humans \cup {"cpu1"} |->
                    [user |-> IF k = "cpu1" THEN "cpu@mnk"
                              ELSE "anonymous@mnk",
                     wins |-> 0, losses |-> 0, draws |-> 0]],
     RuleSet |-> rule_set]

\* add_cpu_player has returned: the CPU has moved if it got the first seat.
CpuInit ==
    \E rule_set \in CpuRuleSets : \E order \in shuffle(<<"A", "cpu1">>) :
        \E r \in handle_cpu(CpuSeated(rule_set, order), 1) :
            /\ Game = r.st.Game
            /\ Player = r.st.Player
            /\ RuleSet = r.st.RuleSet
            /\ next_id = MaxGames + 1
            /\ response = [action |-> "add_cpu_player", game |-> 1,
                           player |-> "A", status |-> "success",
                           type |-> "", message |-> ""]
            /\ Idle

CpuNext ==
    \/ \E id \in GameIds, x \in Xs, y \in Ys : put_tile(id, "A", x, y)
    \/ \E id \in GameIds, known \in BOOLEAN : get_game_status(id, "A", known)

CpuSpec == CpuInit /\ [][CpuNext]_vars

\* The cells of the grid that are empty in the stored board.
Empty(data) == {c \in Cells : Cell(data, c[1], c[2]) = 0}

\* C13: when the CPU strategist is invoked for the seat to move of a playing
\* game whose board has an empty cell, its move is committed without an
\* error: one empty cell of the m-by-n grid gets the stone of that seat,
\* the turn is 1 larger and the board holds exactly one stone more.
C13_CpuMoveIsLegal ==
    \A id \in Stored :
        (CpuToMove(id) /\ Empty(Game[id].data) # {}) =>
            \A r \in handle_cpu(Store, id) :
                LET g == Game[id]
                IN  /\ r.error = NoError
                    /\ \E c \in Empty(g.data) :
                          Committed(r.st, id, g, g.current_player, c[1], c[2])
                    /\ Stones(r.st.Game[id].data) = Stones(g.data) + 1

\* C13, the failing case: a status request let the CPU move on a board with
\* m # n, the strategist ended in IndexError and no stone was stored.
C13_Witness ==
    \E id \in Stored :
        /\ response.action = "get_game_status"
        /\ response.type = "IndexError"
        /\ CpuToMove(id)
        /\ RuleSet.m # RuleSet.n
        /\ Stones(Game[id].data) = 0

\* The empty cells on which a stone of seat completes k in a row.
Winning(data, seat) ==
    {c \in Empty(data) : KLine(After(data, seat, c[1], c[2]), seat, c[1], c[2])}

\* The stores on which a request handler calls handle_cpu for game id: the
\* stored one (get_game_status) and the one a move of put_tile has produced.
CpuCalls(id) ==
    {Store} \cup {move(Store, id, player, c[1], c[2]).st :
                     player \in Everyone, c \in Cells}

\* In store st the game id is being played and a CPU player is to move.
CpuOnMove(st, id) ==
    /\ st.Game[id] # None
    /\ st.Game[id].state = "playing"
    /\ is_cpu(st, st.Game[id].players[st.Game[id].current_player])

\* The CPU move r from store st put its stone on a cell of the set S.
PlayedIn(r, st, id, S) ==
    /\ r.error = NoError
    /\ \E c \in S :
          /\ Committed(r.st, id, st.Game[id], st.Game[id].current_player,
                       c[1], c[2])
          /\ \A d \in Cells \ {c} :
                Cell(r.st.Game[id].data, d[1], d[2]) =
                    Cell(st.Game[id].data, d[1], d[2])

Threats(data, seat) ==
    UNION {Winning(data, other) :
              other \in (1 .. RuleSet.num_players) \ {seat}}

\* C15: when the CPU is to move, no empty cell wins for it at once and
\* some empty cell completes k in a row for an opponent, the cell it plays
\* is such a cell of an opponent.
C15_CpuBlocks ==
    \A id \in Stored :
        \A st \in CpuCalls(id) :
            LET data == st.Game[id].data
                seat == st.Game[id].current_player
            IN  (/\ CpuOnMove(st, id)
                 /\ Winning(data, seat) = {}
                 /\ Threats(data, seat) # {}) =>
                    \A r \in handle_cpu(st, id) :
                        PlayedIn(r, st, id, Threats(data, seat))

\* C15 (amended): the same for rule sets of one stone per turn (p = 1).
C15_CpuBlocksSingleStone ==
    \A id \in Stored :
        \A st \in CpuCalls(id) :
            LET data == st.Game[id].data
                seat == st.Game[id].current_player
            IN  (/\ CpuOnMove(st, id)
                 /\ st.RuleSet.p = 1
                 /\ Winning(data, seat) = {}
                 /\ Threats(data, seat) # {}) =>
                    \A r \in handle_cpu(st, id) :
                        PlayedIn(r, st, id, Threats(data, seat))

\* With one stone per turn, a game goes on after the CPU has answered a
\* move with a stone on a cell that would have completed k in a row for
\* the player who moved.
C15_Witness ==
    \E id \in Stored :
        /\ response.action = "put_tile"
        /\ response.status = "success"
        /\ RuleSet.p = 1
        /\ Game[id].state = "playing"
        /\ ~CpuToMove(id)
        /\ \E c \in Cells :
              /\ Cell(Game[id].data, c[1], c[2]) # 0
              /\ is_cpu(Store, Game[id].players[Cell(Game[id].data,
                                                      c[1], c[2])])
              /\ KLine(After(Game[id].data, Game[id].current_player,
                             c[1], c[2]),
                       Game[id].current_player, c[1], c[2])

\* ---------------------------------------------------------------------
\* The rule engine and the board codec on their own: a rule set, a board
\* of its dimensions and a turn are drawn, and each step calls one of the
\* functions on them and answers with the value it returns.

MaxSide == 3
MaxCells == 6
MaxStones == 3
MaxTurn == 30
MaxPlayers == 9

\* Rule sets of two seats for all board sizes, with k up to one more than
\* the longest side; for boards of more than MaxCells cells, k is the
\* longest side.
BoardRuleSets ==
    {rule_set \in {rs(m, n, k, 1, 1, 2) :
                      m \in 1 .. MaxSide, n \in 1 .. MaxSide,
                      k \in 1 .. (MaxSide + 1)} :
        rule_set.m * rule_set.n <= MaxCells \/ rule_set.k = MaxSide}

\* Rule sets of all numbers of seats and stones per turn.
TurnRuleSets ==
    {rs(1, 1, 1, p, q, num_players) :
        p \in 1 .. MaxStones, q \in 1 .. MaxStones,
        num_players \in 2 .. MaxPlayers}

\* The packed boards of rule_set: m strings of n digits 0 .. num_players.
\* Of the boards of more than MaxCells cells, those in which no seat has
\* placed two stones more than another.
Placed(data, seat) ==
    Cardinality({c \in (DOMAIN data) \X (DOMAIN data[1]) :
                    data[c[1]][c[2]] = str(seat)})

Boards(rule_set) ==
    {data \in [1 .. rule_set.m ->
                  [1 .. rule_set.n ->
                      {str(v) : v \in 0 .. rule_set.num_players}]] :
        \/ rule_set.m * rule_set.n <= MaxCells
        \/ \A a, b \in 1 .. rule_set.num_players :
              Placed(data, a) - Placed(data, b) \in {-1, 0, 1}}

\* A game entity of rule_set that is being played, with the given board.
loaded(rule_set, data, turn) ==
    [new_game(rule_set) EXCEPT !.state = "playing", !.data = data,
                               !.turn = turn,
                               !.current_player = whose_turn(rule_set, turn)]

\* The datastore holds the rule set and, under every id, a game of it
\* with the board data at the given turn; no request has been answered.
Loaded(data, turn) ==
    /\ Game = [id \in GameIds |-> loaded(RuleSet, data, turn)]
    /\ Player = [k \in Humans |->
                    [user |-> "anonymous@mnk", wins |-> 0, losses |-> 0,
                     draws |-> 0]]
    /\ next_id = MaxGames + 1
    /\ response = [action |-> ""]
    /\ Idle

\* A call on the rule set or on the game id answers value; nothing is
\* stored.
returns(action, id, value) ==
    /\ response' = [action |-> action, game |-> id, value |-> value]
    /\ UNCHANGED <<Game, Player, RuleSet, next_id, pending>>

\* RuleSet.is_win on the boards of the board rule sets.
call_is_win(id, player, x, y) ==
    returns("is_win", id,
            is_win(RuleSet, unpack_board(Game[id].data), player, x, y))

WinInit ==
    /\ RuleSet \in BoardRuleSets
    /\ \E data \in Boards(RuleSet) : Loaded(data, 0)

WinNext ==
    \E id \in GameIds, player \in 1 .. RuleSet.num_players,
       x \in 0 .. (RuleSet.m - 1), y \in 0 .. (RuleSet.n - 1) :
       call_is_win(id, player, x, y)

WinSpec == WinInit /\ [][WinNext]_vars

\* RuleSet.whose_turn and RuleSet.turns_left on the turn rule sets.
call_whose_turn(id) ==
    returns("whose_turn", id, whose_turn(RuleSet, Game[id].turn))

call_turns_left(id) ==
    returns("turns_left", id, turns_left(RuleSet, Game[id].turn))

TurnInit ==
    /\ RuleSet \in TurnRuleSets
    /\ \E turn \in 0 .. MaxTurn : Loaded(new_data(RuleSet), turn)

TurnNext ==
    \/ \E id \in GameIds : call_whose_turn(id)
    \/ \E id \in GameIds : call_turns_left(id)

TurnSpec == TurnInit /\ [][TurnNext]_vars

\* Game.unpack_board and Game.pack_board on the boards of up to MaxCells
\* cells and, for every number of seats, on the boards of two cells.
CodecRuleSets ==
    {rule_set \in BoardRuleSets : rule_set.m * rule_set.n <= MaxCells}
    \cup {rs(1, 2, 2, 1, 1, num_players) : num_players \in 2 .. MaxPlayers}

call_unpack_board(id) ==
    returns("unpack_board", id, unpack_board(Game[id].data))

\* pack_board of an instance that holds the unpacked board of its data.
call_pack_board(id) ==
    returns("pack_board", id,
            IF pack_board_raises(RuleSet, unpack_board(Game[id].data))
            THEN "IndexError"
            ELSE pack_board(RuleSet, unpack_board(Game[id].data)))

CodecInit ==
    /\ RuleSet \in CodecRuleSets
    /\ \E data \in Boards(RuleSet) : Loaded(data, 0)

CodecNext ==
    \/ \E id \in GameIds : call_unpack_board(id)
    \/ \E id \in GameIds : call_pack_board(id)

CodecSpec == CodecInit /\ [][CodecNext]_vars

\* The board of the game id as the rule engine sees it.
Board(id) == [c \in Cells |-> Cell(Game[id].data, c[1], c[2])]

\* C16: on every board of the rule set's dimensions, for every seat and
\* every cell (x, y) of the board, is_win returns True if and only if some
\* segment of k cells through (x, y) along one of the four axes lies on
\* the board and holds only stones of that seat.
C16_IsWinIffKLine ==
    \A id \in Stored : \A player \in 1 .. RuleSet.num_players :
        \A c \in Cells :
            LET won == is_win(RuleSet, unpack_board(Game[id].data), player,
                              c[1], c[2])
            IN  /\ won \in {"True", "False"}
                /\ won = "True" <=> KLine(Board(id), player, c[1], c[2])

\* is_win has answered True on a board with a side shorter than k whose
\* only stones of a seat are k in the corner column x = 0.
C16_Witness ==
    \E id \in Stored :
        /\ response.action = "is_win"
        /\ response.value = "True"
        /\ RuleSet.k > RuleSet.m
        /\ RuleSet.k = RuleSet.n
        /\ RuleSet.k > 1
        /\ \A y \in 0 .. (RuleSet.n - 1) : Cell(Game[id].data, 0, y) = 1
        /\ \A c \in Cells : c[1] > 0 => Cell(Game[id].data, c[1], c[2]) # 1

\* C17: for every rule set (2 to 9 seats, p and q at least 1) and every
\* turn t, whose_turn(t) is a seat 1 .. N; it is seat 1 while t < q; from
\* t = q on the seats come in blocks of p turns in the cyclic order
\* 2, 3, ..., N, 1, 2, ...; and whose_turn(t) = whose_turn(t + N * p) for
\* t >= q.
C17_WhoseTurn ==
    LET N == RuleSet.num_players
        p == RuleSet.p
        q == RuleSet.q
        seat(t) == whose_turn(RuleSet, t)
    IN  \A t \in 0 .. MaxTurn :
            /\ seat(t) \in 1 .. N
            /\ t < q => seat(t) = 1
            /\ t = q => seat(t) = 2
            /\ t >= q =>
                  /\ seat(t + 1) = IF (t + 1 - q) % p # 0 THEN seat(t)
                                   ELSE IF seat(t) = N THEN 1
                                   ELSE seat(t) + 1
                  /\ seat(t + N * p) = seat(t)

\* whose_turn has answered seat 1 after the last seat's block, in a rule
\* set of nine seats with more than one stone per turn.
C17_Witness ==
    \E id \in Stored :
        /\ response.action = "whose_turn"
        /\ response.value = 1
        /\ RuleSet.num_players = MaxPlayers
        /\ RuleSet.p > 1
        /\ Game[id].turn >= RuleSet.q + (MaxPlayers - 1) * RuleSet.p

\* C18: for every rule set and every turn t, turns_left(t) is at least 1,
\* the seat of whose_turn stays the same for the next turns_left(t) turns
\* from t on, and it is another seat at turn t + turns_left(t).
C18_TurnsLeft ==
    \A t \in 0 .. MaxTurn :
        LET left == turns_left(RuleSet, t)
        IN  /\ left >= 1
            /\ \A j \in 0 .. (left - 1) :
                  whose_turn(RuleSet, t + j) = whose_turn(RuleSet, t)
            /\ whose_turn(RuleSet, t + left) # whose_turn(RuleSet, t)

\* turns_left has answered with more than one stone in the middle of a
\* block of a later turn.
C18_Witness ==
    \E id \in Stored :
        /\ response.action = "turns_left"
        /\ response.value = 2
        /\ RuleSet.p = 3
        /\ RuleSet.q = 2
        /\ Game[id].turn = RuleSet.q + RuleSet.p + 1

\* C19: the board of a game that is waiting for players, as the first
\* put() has stored it, is m strings of n characters '0', and its unpacked
\* form has a cell board[x][y] for every x < m and y < n.
C19_NewBoardIsMByN ==
    \A id \in Stored :
        Game[id].state = "waiting" =>
            /\ Game[id].data = [x \in 1 .. RuleSet.m |->
                                   [y \in 1 .. RuleSet.n |-> "0"]]
            /\ \A c \in Cells :
                  HasIndex(unpack_board(Game[id].data), c[1], c[2])

\* create_game has stored a game of a rule set with m # n.
C19_Witness ==
    \E id \in Stored :
        /\ response.action = "create_game"
        /\ response.status = "success"
        /\ Game[id].state = "waiting"
        /\ RuleSet.m # RuleSet.n

\* The m-by-n integer array with the values of the cells of data.
Array(data) ==
    [x \in 1 .. RuleSet.m |->
        [y \in 1 .. RuleSet.n |-> Cell(data, x - 1, y - 1)]]

\* data is m strings of n digits 0 .. num_players.
WellFormed(data) ==
    /\ Len(data) = RuleSet.m
    /\ \A x \in 1 .. RuleSet.m :
          /\ Len(data[x]) = RuleSet.n
          /\ \A y \in 1 .. RuleSet.n :
                \E v \in 0 .. RuleSet.num_players : data[x][y] = str(v)

\* C20: for every stored board s that is m strings of n digits
\* 0 .. num_players, pack_board of unpack_board(s) is s; and for the
\* m-by-n integer array b of its values, unpack_board of pack_board(b)
\* is b.
C20_PackUnpack ==
    \A id \in Stored :
        LET s == Game[id].data
            b == Array(s)
        IN  WellFormed(s) =>
                /\ ~pack_board_raises(RuleSet, unpack_board(s))
                /\ pack_board(RuleSet, unpack_board(s)) = s
                /\ ~pack_board_raises(RuleSet, b)
                /\ unpack_board(pack_board(RuleSet, b)) = b

\* pack_board has answered the stored board of a rule set with m # n and
\* nine seats that holds a stone of the ninth seat.
C20_Witness ==
    \E id \in Stored :
        /\ response.action = "pack_board"
        /\ response.value = Game[id].data
        /\ WellFormed(Game[id].data)
        /\ RuleSet.m # RuleSet.n
        /\ RuleSet.num_players = MaxPlayers
        /\ \E c \in Cells : Cell(Game[id].data, c[1], c[2]) = MaxPlayers

\* ---------------------------------------------------------------------
\* Requests that overlap, one from each of MaxRequests clients.  A request
\* reads its Game entity (get_by_id, or the query of get_games) and, after
\* any number of steps of other requests, goes on with the instance it has
\* read: the method works on that instance and put() stores it whole.  The
\* datastore calls are not run in a transaction (no db.run_in_transaction
\* in the source).

ConcRuleSets == {rs(2, 2, 2, 1, 1, 2)}

\* The stores after up to n more accepted put_tile requests on game id.
RECURSIVE played(_, _, _)
played(S, id, n) ==
    IF n = 0 THEN S
    ELSE played(S \cup
                {r.st : r \in UNION {status_after(move(st, id, player, x, y),
                                                  id) :
                                        st \in S, player \in Humans,
                                        x \in 0 .. 1, y \in 0 .. 1}},
                id, n - 1)

\* A game of two seats has started, A in seat 1 against B or a CPU player,
\* and up to MaxPlayed moves have been played; no request is in progress.
ConcInit ==
    \E rule_set \in ConcRuleSets : \E other \in {"B", "cpu1"} :
        \E st \in played({CpuSeated(rule_set, <<"A", other>>)}, 1,
                          MaxPlayed) :
            /\ Game = st.Game
            /\ Player = st.Player
            /\ RuleSet = st.RuleSet
            /\ next_id = MaxGames + 1
            /\ response = [action |-> "get_game_status", game |-> 1,
                           player |-> "A", status |-> "success",
                           type |-> "", message |-> ""]
            /\ Idle

\* The first step of request q: the handler has got its Game instance.
read_game(q, action, id, player, x, y) ==
    /\ pending[q] = NoRequest
    /\ Game[id] # None
    /\ pending' = [pending EXCEPT ![q] =
                      [action |-> action, game |-> id, player |-> player,
                       x |-> x, y |-> y, self |-> Game[id]]]
    /\ UNCHANGED <<Game, Player, RuleSet, next_id, response>>

read_put_tile(q, id, player, x, y) ==
    read_game(q, "put_tile", id, player, x, y)

read_leave_game(q, id, player) ==
    read_game(q, "leave_game", id, player, 0, 0)

read_get_game_status(q, id, player) ==
    read_game(q, "get_game_status", id, player, 0, 0)

\* The query of get_games(mode) has returned the game id, which has been
\* idle for too long.
read_get_games(q, id, player) ==
    /\ \E mode \in {"play", "view"} : id \in results(mode, player)
    /\ read_game(q, "get_games", id, player, 0, 0)

\* The datastore as request q sees it: its own instance of the game, and
\* what db.get returns now for everything else.
view(q) == [Store EXCEPT !.Game[pending[q].game] = pending[q].self]

\* The rest of the handler of request q, on its instance.
rest(q) ==
    LET req == pending[q]
        st == view(q)
    IN  CASE req.action = "put_tile" ->
                LET r == move(st, req.game, req.player, req.x, req.y)
                IN  IF r.error # NoError THEN {r}
                    ELSE handle_cpu(r.st, req.game)
          [] req.action = "leave_game" ->
                {remove_player(st, req.game, req.player)}
          [] req.action = "get_game_status" ->
                handle_cpu(st, req.game)
          [] req.action = "get_games" ->
                {abort(st, req.game)}

\* The second step of request q.  Only the entities the handler has put or
\* deleted are written; the game is written as the instance holds it.
go_on(q) ==
    /\ pending[q] \notin {NoRequest, Answered}
    /\ \E r \in rest(q) :
          /\ WithinCount(r.st)
          /\ Game' = IF r.st.Game = view(q).Game THEN Game ELSE r.st.Game
          /\ Player' = r.st.Player
          /\ RuleSet' = r.st.RuleSet
          /\ response' = [action |-> pending[q].action,
                          game |-> pending[q].game,
                          player |-> pending[q].player,
                          status |-> IF r.error = NoError THEN "success"
                                     ELSE "error",
                          type |-> r.error.type,
                          message |-> r.error.message]
    /\ pending' = [pending EXCEPT ![q] = Answered]
    /\ UNCHANGED next_id

ConcNext ==
    \/ \E q \in Requests, id \in GameIds, player \in Humans, c \in Cells :
          read_put_tile(q, id, player, c[1], c[2])
    \/ \E q \in Requests, id \in GameIds, player \in Humans :
          read_leave_game(q, id, player)
    \/ \E q \in Requests, id \in GameIds, player \in Humans :
          read_get_game_status(q, id, player)
    \/ \E q \in Requests, id \in GameIds, player \in Humans :
          read_get_games(q, id, player)
    \/ \E q \in Requests : go_on(q)

ConcSpec == ConcInit /\ [][ConcNext]_vars

\* Request q is a put_tile that goes on in this step and succeeds.
MoveSucceeds(q) ==
    /\ pending[q] \notin {NoRequest, Answered}
    /\ pending[q].action = "put_tile"
    /\ pending'[q] = Answered
    /\ response'.status = "success"

\* C21: a put_tile that succeeds leaves the stored turn greater by the
\* stones it has stored (its own and, if a CPU player is next, that
\* player's) than the turn stored immediately before, and every stone
\* stored before is still stored; so of two put_tile requests that have
\* both read the game before either writes, the later one does not succeed.
C21_MoveKeepsStones ==
    [][\A q \in Requests :
          MoveSucceeds(q) =>
              LET id == pending[q].game
              IN  /\ Game'[id] # None
                  /\ Game'[id].turn \in {Game[id].turn + 1, Game[id].turn + 2}
                  /\ Stones(Game'[id].data) - Stones(Game[id].data) =
                         Game'[id].turn - Game[id].turn
                  /\ \A c \in Cells :
                        Cell(Game[id].data, c[1], c[2]) # 0 =>
                            Cell(Game'[id].data, c[1], c[2]) =
                                Cell(Game[id].data, c[1], c[2])]_vars

\* A put_tile has been committed while another put_tile, which has read
\* the game before that, has not gone on yet.
C21_Witness ==
    \E q \in Requests : \E id \in Stored :
        /\ pending[q] \notin {NoRequest, Answered}
        /\ pending[q].action = "put_tile"
        /\ pending[q].game = id
        /\ response.action = "put_tile"
        /\ response.status = "success"
        /\ pending[q].self.state = "playing"
        /\ pending[q].self.turn < Game[id].turn

\* C22: whatever requests overlap, a game that is stored as win, draw or
\* aborted is never stored as playing or waiting by a later write.
C22_LeavesPlayingOnce ==
    [][\A id \in GameIds :
          (Game[id] # None /\ Game[id].state \in {"win", "draw", "aborted"})
              => (Game'[id] # None
                  /\ Game'[id].state \in {"win", "draw", "aborted"})]_vars

\* The game has been stored as win, draw or aborted while a put_tile that
\* has read it as playing has not gone on yet.
C22_Witness ==
    \E q \in Requests : \E id \in Stored :
        /\ pending[q] \notin {NoRequest, Answered}
        /\ pending[q].action = "put_tile"
        /\ pending[q].game = id
        /\ pending[q].self.state = "playing"
        /\ Game[id].state \in {"win", "draw", "aborted"}

\* ---------------------------------------------------------------------
\* get_games with the clock.  The Game entities carry last_update, in
\* hours; now is what datetime.utcnow() returns to the request.

MaxListed == 3
ListIds == 1 .. MaxListed
StartHours == {0, 1, 2}
NowHours == {6, 7, 8, 48, 49, 50}
WaitingHours == 6
PlayingHours == 48

\* The entity self with the property last_update.
dated(self, hour) ==
    [f \in DOMAIN self \cup {"last_update"} |->
        IF f = "last_update" THEN hour ELSE self[f]]

\* Games of a rule set that wait with A seated or are played by A and B,
\* last written at one of the start hours.
ListInit ==
    /\ RuleSet = rs(2, 2, 2, 1, 1, 2)
    /\ Game \in [ListIds ->
                    {dated(g, hour) :
                        g \in {[new_game(RuleSet) EXCEPT !.players = <<"A">>],
                               start(new_game(RuleSet), <<"A", "B">>)},
                        hour \in StartHours}]
    /\ Player = [k \in Humans |->
                    [user |-> "anonymous@mnk", wins |-> 0, losses |-> 0,
                     draws |-> 0]]
    /\ next_id = MaxListed + 1
    /\ response = [action |-> ""]
    /\ Idle

\* The ids of S in the orders of a query with order('-last_update').
newest_first(st, S) ==
    {order \in [1 .. Cardinality(S) -> S] :
        /\ \A i, j \in DOMAIN order : i # j => order[i] # order[j]
        /\ \A i, j \in DOMAIN order :
              i < j => st.Game[order[i]].last_update >=
                           st.Game[order[j]].last_update}

\* The first n elements of s (fetch(n)).
fetch(s, n) == SubSeq(s, 1, IF Len(s) < n THEN Len(s) ELSE n)

in_state(st, states) ==
    {id \in DOMAIN st.Game :
        st.Game[id] # None /\ st.Game[id].state \in states}

of_player(st, S, player) ==
    {id \in S : player \in Range(st.Game[id].players)}

\* The lists results that get_games(mode) may iterate over.
query(st, mode, player) ==
    CASE mode = "play" ->
            {playing \o fetch(waiting, 10) :
                playing \in newest_first(st, of_player(st,
                                in_state(st, {"playing"}), player)),
                waiting \in newest_first(st, in_state(st, {"waiting"}))}
      [] mode = "view" ->
            {fetch(playing, 10) :
                playing \in newest_first(st, in_state(st, {"playing"}))}
      [] mode = "past" ->
            {fetch(history, 10) :
                history \in newest_first(st, of_player(st,
                                in_state(st, {"aborted", "win", "draw"}),
                                player))}

\* A test that takes a game at its threshold for abandoned.
abandoned_at_threshold(game, now) ==
    LET age == now - game.last_update
    IN  \/ game.state = "waiting" /\ age >= WaitingHours
        \/ game.state = "playing" /\ age >= PlayingHours

\* The test of the loop of get_games on one game.
abandoned(game, now) ==
    LET age == now - game.last_update
    IN  \/ game.state = "waiting" /\ age > WaitingHours
        \/ game.state = "playing" /\ age > PlayingHours

\* A loop that goes on to the next game after an abort (continue for
\* break).
RECURSIVE list_loop_continue(_, _, _, _, _)
list_loop_continue(st, found, now, i, games) ==
    IF i > Len(found) THEN [st |-> st, games |-> games]
    ELSE LET id == found[i]
         IN  IF abandoned(st.Game[id], now)
             THEN LET r == abort(st, id)
                  IN  list_loop_continue(
                          IF r.st.Game[id] = None THEN r.st
                          ELSE [r.st EXCEPT !.Game[id].last_update = now],
                          found, now, i + 1, games)
             ELSE list_loop_continue(st, found, now, i + 1,
                                     Append(games, id))

\* The loop of get_games over the list found from index i on, with the list games
\* built so far: the store it leaves and the ids it has listed.
RECURSIVE list_loop(_, _, _, _, _)
list_loop(st, found, now, i, games) ==
    IF i > Len(found) THEN [st |-> st, games |-> games]
    ELSE LET id == found[i]
         IN  IF abandoned(st.Game[id], now)
             THEN LET r == abort(st, id)
                  IN  [st |-> IF r.st.Game[id] = None THEN r.st
                              ELSE [r.st EXCEPT
                                       !.Game[id].last_update = now],
                       games |-> games]
             ELSE list_loop(st, found, now, i + 1, Append(games, id))

\* get_games(mode) at the hour now.
get_games_at(mode, player, now) ==
    /\ \A id \in DOMAIN Game :
          Game[id] # None => Game[id].last_update <= now
    /\ \E found \in query(Store, mode, player) :
          LET r == list_loop(Store, found, now, 1, <<>>)
          IN  /\ Game' = r.st.Game
              /\ Player' = r.st.Player
              /\ RuleSet' = r.st.RuleSet
              /\ response' = [action |-> "get_games", mode |-> mode,
                              player |-> player, now |-> now,
                              results |-> found, games |-> r.games]
    /\ UNCHANGED <<next_id, pending>>

ListNext ==
    \E mode \in {"play", "view", "past"}, player \in Humans,
       now \in NowHours :
       get_games_at(mode, player, now)

ListSpec == ListInit /\ [][ListNext]_vars

\* The stored game id is waiting and older than 6 hours, or playing and
\* older than 48 hours, at the hour now.
Expired(id, now) ==
    \/ Game[id].state = "waiting" /\ now - Game[id].last_update > 6
    \/ Game[id].state = "playing" /\ now - Game[id].last_update > 48

\* The positions of the expired games in the list found.
ExpiredAt(found, now) == {i \in DOMAIN found : Expired(found[i], now)}

\* The first of them.
FirstExpired(found, now) ==
    found[CHOOSE i \in ExpiredAt(found, now) :
              \A j \in ExpiredAt(found, now) : i <= j]

\* The hours at which a request can read the clock.
Nows == {now \in NowHours :
            \A id \in DOMAIN Game :
                Game[id] # None => Game[id].last_update <= now}

Modes == {"play", "view", "past"}

\* C23: the first expired game a listing request finds is stored as
\* aborted with turn -1 afterwards, and the games that are not expired are
\* stored as before.
C23_ExpiredIsAborted ==
    \A mode \in Modes, player \in Humans, now \in Nows :
        \A found \in query(Store, mode, player) :
            LET r == list_loop(Store, found, now, 1, <<>>)
            IN  /\ ExpiredAt(found, now) # {} =>
                      LET id == FirstExpired(found, now)
                      IN  /\ r.st.Game[id] # None
                          /\ r.st.Game[id].state = "aborted"
                          /\ r.st.Game[id].turn = -1
                /\ \A id \in DOMAIN Game :
                      (Game[id] # None /\ ~Expired(id, now)) =>
                          r.st.Game[id] = Game[id]

\* C23 (amended): the first expired game a listing request finds is
\* deleted if it is waiting and stored as aborted with turn -1 and
\* last_update = now if it is playing; every other game is stored as
\* before.
C23_ExpiredIsAbortedOrDeleted ==
    \A mode \in Modes, player \in Humans, now \in Nows :
        \A found \in query(Store, mode, player) :
            LET r == list_loop(Store, found, now, 1, <<>>)
            IN  IF ExpiredAt(found, now) = {} THEN r.st = Store
                ELSE LET id == FirstExpired(found, now)
                     IN  /\ Game[id].state = "waiting" =>
                                r.st.Game[id] = None
                         /\ Game[id].state = "playing" =>
                                r.st.Game[id] =
                                    [Game[id] EXCEPT !.state = "aborted",
                                                     !.turn = -1,
                                                     !.last_update = now]
                         /\ \A other \in DOMAIN Game \ {id} :
                                r.st.Game[other] = Game[other]
                         /\ r.st.Player = Player
                         /\ r.st.RuleSet = RuleSet

\* A listing request has deleted a waiting game and has left a waiting
\* game that is exactly 6 hours old.
C23_Witness ==
    /\ response.action = "get_games"
    /\ \E id \in DOMAIN Game : Game[id] = None
    /\ \E id \in DOMAIN Game :
          /\ Game[id] # None
          /\ Game[id].state = "waiting"
          /\ response.now - Game[id].last_update = 6

\* C24: a listing request changes at most one stored game, whatever
\* number of the games it finds have expired: the games it finds after the
\* first expired one are stored as before and are not in the list it
\* returns, which holds the games found before that one.
C24_AtMostOneAbort ==
    \A mode \in Modes, player \in Humans, now \in Nows :
        \A found \in query(Store, mode, player) :
            LET r == list_loop(Store, found, now, 1, <<>>)
                changed == {id \in DOMAIN Game : r.st.Game[id] # Game[id]}
            IN  /\ Cardinality(changed) <= 1
                /\ \A i \in ExpiredAt(found, now) :
                      /\ r.games = SubSeq(found, 1, i - 1) \/
                             \E j \in ExpiredAt(found, now) : j < i
                      /\ \A j \in DOMAIN found :
                            j > i => r.st.Game[found[j]] = Game[found[j]]

\* A listing request has aborted or deleted one game and has left another
\* game of its list that had expired as well.
C24_Witness ==
    /\ response.action = "get_games"
    /\ Len(response.games) < Len(response.results)
    /\ \E id \in Range(response.results) :
          /\ Game[id] # None
          /\ Expired(id, response.now)

\* The stored games that have ended in win or draw.
Completed == {id \in Stored : Game[id].state \in {"win", "draw"}}

\* num_games is the number of completed games.
C25_Counts == RuleSet.num_games = Cardinality(Completed)

\* A step adds to num_games the number of games that it has stored as win
\* or draw and that were not stored so before.
C25_Step ==
    RuleSet'.num_games =
        RuleSet.num_games +
        Cardinality({id \in GameIds :
                        /\ Game'[id] # None
                        /\ Game'[id].state \in {"win", "draw"}
                        /\ id \notin Completed})

\* C25: num_games of the rule set never decreases and is always the number
\* of its games that have reached win or draw: a request adds 1 for each
\* game it takes to win or draw and leaves it unchanged otherwise (create,
\* join, leave, moves that do not end the game, rejected moves, aborts).
C25_NumGamesCountsCompleted == [](C25_Counts) /\ [][C25_Step]_vars

\* A put_tile has failed with IndexError and has left the game playing
\* with no stone stored, and num_games has been incremented.
C25_Witness ==
    \E id \in Stored :
        /\ response.action = "put_tile"
        /\ response.type = "IndexError"
        /\ Game[id].state = "playing"
        /\ Game[id].turn = 0
        /\ RuleSet.num_games > 0

\* C26: in every stored game turn is at most m * n; a game with m * n
\* stones on its board is in state win or draw; and every move that is
\* accepted, of a player or of the CPU, at the start of a request or after
\* the move of the request, leaves the turn greater by exactly 1.
C26_TurnIsBounded ==
    \A id \in Stored :
        /\ Game[id].turn <= RuleSet.m * RuleSet.n
        /\ Stones(Game[id].data) = RuleSet.m * RuleSet.n =>
               Game[id].state \in {"win", "draw"}
        /\ \A player \in Everyone, c \in Cells :
              LET r == move(Store, id, player, c[1], c[2])
              IN  r.error = NoError =>
                      r.st.Game[id].turn = Game[id].turn + 1
        /\ \A st \in CpuCalls(id) :
              CpuOnMove(st, id) =>
                  \A r \in handle_cpu(st, id) :
                      /\ r.error = NoError =>
                             r.st.Game[id].turn = st.Game[id].turn + 1
                      /\ r.st.Game[id].turn <= RuleSet.m * RuleSet.n

\* The CPU has placed the last stone on the board in a status request.
C26_Witness ==
    \E id \in Stored :
        /\ response.action = "get_game_status"
        /\ response.status = "success"
        /\ Game[id].turn = RuleSet.m * RuleSet.n
        /\ Stones(Game[id].data) = RuleSet.m * RuleSet.n
        /\ Game[id].state \in {"win", "draw"}
        /\ RuleSet.m * RuleSet.n > 1
        /\ \E k \in Range(Game[id].players) : is_cpu(Store, k)

\* ---------------------------------------------------------------------
\* A game of tic-tac-toe between A in seat 1 and B in seat 2.

PlayRuleSets == {rs(3, 3, 3, 1, 1, 2)}

PlayInit ==
    \E rule_set \in PlayRuleSets :
        LET st == CpuSeated(rule_set, <<"A", "B">>)
        IN  /\ Game = st.Game
            /\ Player = [k \in Humans |-> st.Player[k]]
            /\ RuleSet = st.RuleSet
            /\ next_id = MaxGames + 1
            /\ response = [action |-> "join_game", game |-> 1,
                           player |-> "B", status |-> "success",
                           type |-> "", message |-> ""]
            /\ Idle

PlayNext ==
    \E id \in GameIds, player \in Humans, c \in Cells :
        put_tile(id, player, c[1], c[2])

PlaySpec == PlayInit /\ [][PlayNext]_vars

\* A move of a scenario: the player, the seat and the cell.
Mv(player, seat, x, y) == [player |-> player, seat |-> seat, c |-> <<x, y>>]

\* The board with the stones of the first j moves of a scenario.
RECURSIVE BoardOf(_, _)
BoardOf(moves, j) ==
    IF j = 0 THEN [c \in Cells |-> 0]
    ELSE [BoardOf(moves, j - 1) EXCEPT ![moves[j].c] = moves[j].seat]

\* No seat has k in a row on the board B.
NoLine(B) ==
    \A seat \in 1 .. RuleSet.num_players : \A c \in Cells :
        ~KLine(B, seat, c[1], c[2])

\* The counters of player.
Ratings(st, player) ==
    <<st.Player[player].wins, st.Player[player].losses,
      st.Player[player].draws>>

\* The game id is being played, its first j stones are those of the
\* scenario and nobody has finished a game before.
Follows(id, moves, j) ==
    /\ Game[id].state = "playing"
    /\ Game[id].players = <<"A", "B">>
    /\ Game[id].turn = j
    /\ Board(id) = BoardOf(moves, j)
    /\ \A player \in Humans : Ratings(Store, player) = <<0, 0, 0>>

\* Move j + 1 of the scenario is accepted from the board of its first j
\* moves, stores that stone and, unless it is the last move, leaves the
\* game playing with no k in a row on the board.
Accepted(id, moves, j) ==
    LET mv == moves[j + 1]
        r == move(Store, id, mv.player, mv.c[1], mv.c[2])
        after == [c \in Cells |-> Cell(r.st.Game[id].data, c[1], c[2])]
    IN  /\ r.error = NoError
        /\ after = BoardOf(moves, j + 1)
        /\ r.st.Game[id].turn = j + 1
        /\ j + 1 < Len(moves) =>
              r.st.Game[id].state = "playing" /\ NoLine(after)

\* The end of the scenario: state and counters after the last move.
Ends(id, moves, state, a, b) ==
    LET mv == moves[Len(moves)]
        r == move(Store, id, mv.player, mv.c[1], mv.c[2])
    IN  /\ r.st.Game[id].state = state
        /\ r.st.Game[id].turn = Len(moves)
        /\ Ratings(r.st, "A") = a
        /\ Ratings(r.st, "B") = b

DrawMoves ==
    <<Mv("A", 1, 0, 0), Mv("B", 2, 1, 1), Mv("A", 1, 2, 2),
      Mv("B", 2, 0, 2), Mv("A", 1, 0, 1), Mv("B", 2, 2, 1),
      Mv("A", 1, 1, 0), Mv("B", 2, 1, 2), Mv("A", 1, 2, 0)>>

\* C27: in tic-tac-toe with seats A, B the moves A(0,0) B(1,1) A(2,2)
\* B(0,2) A(0,1) B(2,1) A(1,0) B(1,2) A(2,0) are all accepted, no board on
\* the way or at the end has three in a row, and the game ends in draw
\* with turn 9 and one draw counted for A and for B.
C27_DrawScenario ==
    \A id \in Stored : \A j \in 0 .. (Len(DrawMoves) - 1) :
        Follows(id, DrawMoves, j) =>
            /\ Accepted(id, DrawMoves, j)
            /\ j + 1 = Len(DrawMoves) =>
                  /\ NoLine(BoardOf(DrawMoves, j + 1))
                  /\ Ends(id, DrawMoves, "draw", <<0, 0, 1>>, <<0, 0, 1>>)

\* C27 (amended): the moves are all accepted and no board before the last
\* move has three in a row; the last move A(2,0) completes (0,0), (1,0),
\* (2,0) for A, and the game ends in win with turn 9, one win counted
\* for A and one loss for B.
C27_ScenarioEndsInWin ==
    \A id \in Stored : \A j \in 0 .. (Len(DrawMoves) - 1) :
        Follows(id, DrawMoves, j) =>
            /\ Accepted(id, DrawMoves, j)
            /\ j + 1 = Len(DrawMoves) =>
                  /\ KLine(BoardOf(DrawMoves, j + 1), 1, 2, 0)
                  /\ Ends(id, DrawMoves, "win", <<1, 0, 0>>, <<0, 1, 0>>)

\* The nine moves have been played.
C27_Witness ==
    \E id \in Stored :
        /\ response.action = "put_tile"
        /\ response.player = "A"
        /\ response.status = "success"
        /\ Game[id].turn = Len(DrawMoves)
        /\ Board(id) = BoardOf(DrawMoves, Len(DrawMoves))
        /\ Game[id].state = "win"
        /\ Ratings(Store, "A") = <<1, 0, 0>>

WinMoves ==
    <<Mv("A", 1, 0, 0), Mv("B", 2, 1, 0), Mv("A", 1, 1, 1),
      Mv("B", 2, 2, 0), Mv("A", 1, 2, 2)>>

\* The stored board of the game id after the last move of a scenario is
\* data, as the client receives it.
EndsWith(id, moves, data) ==
    LET mv == moves[Len(moves)]
        r == move(Store, id, mv.player, mv.c[1], mv.c[2])
    IN  r.st.Game[id].data = data

\* C28: in tic-tac-toe with seats A, B, after A(0,0), B(1,0), A(1,1),
\* B(2,0), A(2,2) the game is in state win with turn 5, A.wins = 1,
\* B.losses = 1, and the packed board is "100", "010", "001".
C28_WinScenario ==
    \A id \in Stored : \A j \in 0 .. (Len(WinMoves) - 1) :
        Follows(id, WinMoves, j) =>
            /\ Accepted(id, WinMoves, j)
            /\ j + 1 = Len(WinMoves) =>
                  /\ Ends(id, WinMoves, "win", <<1, 0, 0>>, <<0, 1, 0>>)
                  /\ EndsWith(id, WinMoves, <<<<"1", "0", "0">>,
                                              <<"0", "1", "0">>,
                                              <<"0", "0", "1">>>>)

\* C28 (amended): after the five moves the game is in state win with
\* turn 5, A.wins = 1, B.losses = 1, and the packed board is "100", "210",
\* "201": string x holds column x, with the stones of B at (1,0) and (2,0).
C28_WinScenarioBoard ==
    \A id \in Stored : \A j \in 0 .. (Len(WinMoves) - 1) :
        Follows(id, WinMoves, j) =>
            /\ Accepted(id, WinMoves, j)
            /\ j + 1 = Len(WinMoves) =>
                  /\ KLine(BoardOf(WinMoves, j + 1), 1, 2, 2)
                  /\ Ends(id, WinMoves, "win", <<1, 0, 0>>, <<0, 1, 0>>)
                  /\ EndsWith(id, WinMoves, <<<<"1", "0", "0">>,
                                              <<"2", "1", "0">>,
                                              <<"2", "0", "1">>>>)

\* The five moves have been played.
C28_Witness ==
    \E id \in Stored :
        /\ response.action = "put_tile"
        /\ response.player = "A"
        /\ response.status = "success"
        /\ Game[id].turn = Len(WinMoves)
        /\ Board(id) = BoardOf(WinMoves, Len(WinMoves))
        /\ Game[id].state = "win"
        /\ Ratings(Store, "B") = <<0, 1, 0>>

\* What the scan of CpuPlayer.move collects for the CPU player on move in
\* game id of store st.
Scanned(st, id) ==
    LET game == st.Game[id]
        cpu == [board |-> unpack_board(game.data),
                index |-> game.current_player,
                board_width |-> st.RuleSet.m,
                board_height |-> st.RuleSet.n,
                win_length |-> st.RuleSet.k,
                per_turn |-> st.RuleSet.p,
                turns_left |-> turns_left(st.RuleSet, game.turn)]
    IN  scan(cpu, NoScan, sweeps(cpu), 1)

\* The entries of the candidate list m at the coordinate c.
At(m, c) == {a \in 1 .. Len(m) : m[a][2] = c}

\* The coordinate c was proposed by exactly two runs of the scan, d by
\* exactly one, with the larger of the two scores of c.
Intersection(moves, c, d) ==
    /\ Cardinality(At(moves, c)) = 2
    /\ Cardinality(At(moves, d)) = 1
    /\ \E a \in At(moves, c) : \E b \in At(moves, d) :
          /\ moves[b][1] = moves[a][1]
          /\ \A o \in At(moves, c) : moves[o][1] <= moves[a][1]

\* The scan for the CPU player in store st ended without a ForcedMove and
\* with candidates.
Aggregates(st, id) ==
    /\ CpuOnMove(st, id)
    /\ Scanned(st, id).raised = ""
    /\ Len(Scanned(st, id).moves) > 0

\* C29: after the aggregation step the candidate list holds at most one
\* entry per coordinate; a coordinate proposed by two runs carries the
\* larger score plus half the smaller; and a cell proposed by two runs
\* outranks a cell that carries only the larger of those two scores, so
\* the CPU does not play the latter.
C29_CandidatesAreMerged ==
    \A id \in Stored : \A st \in CpuCalls(id) :
        Aggregates(st, id) =>
            LET s == Scanned(st, id)
                m == merge(s.moves)
            IN  /\ \A c \in Cells : Cardinality(At(m, c)) <= 1
                /\ \A c \in Cells : \A a, b \in At(s.moves, c) :
                      (a # b /\ Cardinality(At(s.moves, c)) = 2
                            /\ s.moves[a][1] <= s.moves[b][1]) =>
                          \E e \in At(m, c) :
                              2 * m[e][1] =
                                  2 * s.moves[b][1] + s.moves[a][1]
                /\ \A c, d \in Cells :
                      (Intersection(s.moves, c, d) /\ s.force = <<>>) =>
                          \A r \in cpu_move(st, id,
                                  st.Game[id].players[st.Game[id].current_player]) :
                              ~PlayedIn(r, st, id, {d})

\* The CPU is on move in the stored game, after a request that was served,
\* and two runs of its scan propose one cell while another cell carries
\* only the larger of the two scores.
C29_Witness ==
    \E id \in Stored :
        /\ response.action \in {"put_tile", "get_game_status"}
        /\ response.status = "success"
        /\ Aggregates(Store, id)
        /\ Scanned(Store, id).force = <<>>
        /\ \E c, d \in Cells : Intersection(Scanned(Store, id).moves, c, d)

\* The squared distance of the cell c from the cell (m div 2, n div 2).
Distance(c) ==
    (c[1] - RuleSet.m \div 2) * (c[1] - RuleSet.m \div 2) +
    (c[2] - RuleSet.n \div 2) * (c[2] - RuleSet.n \div 2)

\* The empty cells of the game id in store st that no empty cell beats in
\* closeness to the centre.
Centremost(st, id) ==
    {c \in Empty(st.Game[id].data) :
        \A d \in Empty(st.Game[id].data) : Distance(c) <= Distance(d)}

\* The scan for the CPU player on move in store st found nothing: no stone
\* of any seat has an empty neighbour on a line that k in a row fits in.
FindsNothing(st, id) ==
    /\ CpuOnMove(st, id)
    /\ Empty(st.Game[id].data) # {}
    /\ \/ Stones(st.Game[id].data) = 0
       \/ /\ Scanned(st, id).raised = ""
          /\ Scanned(st, id).moves = <<>>

\* C30: when the scan of the CPU yields no forced move and no candidate,
\* as on an empty board, the CPU plays an empty cell that is closest to
\* (m div 2, n div 2); on an empty board that cell is (m div 2, n div 2),
\* for every m and n, equal or not.
C30_CpuPlaysCentremost ==
    \A id \in Stored : \A st \in CpuCalls(id) :
        FindsNothing(st, id) =>
            \A r \in cpu_move(st, id,
                        st.Game[id].players[st.Game[id].current_player]) :
                /\ PlayedIn(r, st, id, Centremost(st, id))
                /\ Stones(st.Game[id].data) = 0 =>
                      PlayedIn(r, st, id,
                               {<<RuleSet.m \div 2, RuleSet.n \div 2>>})

\* A CPU player is on move on the empty board of a game with m # n, after
\* a request that let it move.
C30_Witness ==
    \E id \in Stored :
        /\ response.action \in {"add_cpu_player", "get_game_status"}
        /\ response.game = id
        /\ RuleSet.m # RuleSet.n
        /\ RuleSet.k > 1
        /\ FindsNothing(Store, id)
        /\ Stones(Game[id].data) = 0

\* The completed games in which the player key has a seat.
CompletedWith(key) ==
    {id \in Completed :
        \E i \in 1 .. Len(Game[id].players) : Game[id].players[i] = key}

\* The sum of the counter field of the players seated in the game id.
RECURSIVE Sum(_, _, _)
Sum(id, field, i) ==
    IF i = 0 THEN 0
    ELSE LET p == Player[Game[id].players[i]]
         IN  Sum(id, field, i - 1) +
             (CASE field = "wins" -> p.wins
                [] field = "losses" -> p.losses
                [] field = "draws" -> p.draws)

\* C31: whatever requests overlap, each game that has ended in win or draw
\* has been counted exactly once: num_games is the number of completed
\* games, every player has one win, loss or draw for each completed game
\* it is seated in and none besides, a won game has given one win and a
\* loss to each other seat, a drawn game one draw to each seat.
C31_CountedOnce ==
    /\ RuleSet.num_games = Cardinality(Completed)
    /\ \A key \in DOMAIN Player :
          Player[key].wins + Player[key].losses + Player[key].draws =
              Cardinality(CompletedWith(key))
    /\ \A id \in Completed :
          LET seats == Len(Game[id].players)
          IN  IF Game[id].state = "win"
              THEN /\ Sum(id, "wins", seats) = 1
                   /\ Sum(id, "losses", seats) = seats - 1
              ELSE Sum(id, "draws", seats) = seats

\* Two put_tile requests with the same finishing move have both read the
\* game before either has gone on, both have been answered with success,
\* and the game is stored as won.
C31_Witness ==
    \E id \in Completed :
        /\ \A q \in Requests : pending[q] = Answered
        /\ response.action = "put_tile"
        /\ response.status = "success"
        /\ Game[id].state = "win"
        /\ RuleSet.num_games = MaxRequests
        /\ Sum(id, "wins", Len(Game[id].players)) = MaxRequests

====
